---- MODULE Spec2Model ----
(***************************************************************************)
(* Search request normalisation (STACSearch, pydantic v1 validation order) *)
(* and query construction (CoreCrudClient.get_search / item_collection /   *)
(* post_search) of the skraafoto STAC API.                                 *)
(*                                                                         *)
(* Representation                                                          *)
(*   - An Optional value is a sequence of length 0 (None) or 1 (<<x>>).    *)
(*   - A text value that the code splits or indexes is a sequence of its   *)
(*     pieces: a datetime is a sequence of tokens ("/", "..", or a         *)
(*     timestamp), a GET sortby token is a sequence of characters.         *)
(*   - Timestamps are the decimal strings of 1..MaxTs; parse_datetime      *)
(*     maps a string back to its number.                                   *)
(***************************************************************************)
EXTENDS Integers, Sequences, FiniteSets, TLC

\* ---------------------------------------------------------------- bounds
MaxCoord == 1      \* bbox / footprint coordinates range over 0..MaxCoord
MaxTs == 2         \* timestamps are "1".."MaxTs"
MaxDtLen == 3      \* a datetime text has at most MaxDtLen tokens
MaxSortKeys == 2   \* a sortby list has at most MaxSortKeys entries
MaxCollections == 3 \* a collection id list has at most MaxCollections entries

\* ------------------------------------------------------ program constants
DefaultLimit == 10     \* STACSearch.limit default, FilterableRequest.limit default
MaxLimit == 1000       \* conint(gt=0, le=1000)
StorageSrid == 4326    \* CoreCrudClient.storage_srid

\* ------------------------------------------------------ Optional values
None == <<>>
Some(x) == <<x>>
IsSome(o) == Len(o) = 1
Val(o) == o[1]
\* Python truthiness of an Optional sequence / string / geometry
TruthySeq(o) == IsSome(o) /\ Len(Val(o)) > 0
TruthyStr(o) == IsSome(o) /\ Val(o) # ""

\* a record extended by one key when cond holds
With(cond, name, v, rec) == IF cond THEN (name :> v) @@ rec ELSE rec

Range(s) == {s[i] : i \in 1..Len(s)}
SeqsUpTo(S, n) == UNION {[1..k -> S] : k \in 0..n}

\* --------------------------------------------------------- CRS catalog
\* CrsExtension().crs : the supported CRS identifiers (URIs, abbreviated)
SupportedCrs == <<"CRS84", "EPSG:4326", "EPSG:25832">>

is_crs_supported(c) == c \in Range(SupportedCrs)

epsg_from_crs(c) == IF c = "EPSG:25832" THEN 25832 ELSE 4326

\* ------------------------------------------------------------- errors
\* One pydantic ErrorWrapper: location, message, and the CRS list the
\* message text embeds (empty when the message embeds none).
Err(loc, msg) == [loc |-> loc, msg |-> msg, supported |-> <<>>]
CrsErr(loc, msg) == [loc |-> loc, msg |-> msg, supported |-> SupportedCrs]

Ok(v) == [val |-> v, errs |-> <<>>]
Fail(e) == [val |-> None, errs |-> <<e>>]

\* ------------------------------------------------ STACSearch validators
validate_bbox_crs(v) ==
    IF Val(v) # ""
    THEN IF Val(v) \in Range(SupportedCrs)
         THEN Ok(v)
         ELSE Fail(CrsErr("bbox_crs", "is not a supported bbox-crs"))
    ELSE Ok(None)

validate_crs(v) ==
    IF Val(v) # ""
    THEN IF Val(v) \in Range(SupportedCrs)
         THEN Ok(v)
         ELSE Fail(CrsErr("crs", "is not a supported crs"))
    ELSE Ok(None)

validate_filter_crs(v) ==
    IF Val(v) # ""
    THEN IF Val(v) \in Range(SupportedCrs)
         THEN Ok(v)
         ELSE Fail(CrsErr("filter_crs", "is not a supported filter-crs"))
    ELSE Ok(None)

\* variant: a bbox validator that checks the longitudes only
validate_bbox_lon_only(v, values) ==
    LET b == Val(v) IN
    IF TruthySeq(v) /\ (IF Len(b) = 4 THEN b[3] ELSE b[4]) < b[1]
    THEN Fail(Err("bbox", "Maximum longitude must be greater than minimum longitude"))
    ELSE Ok(v)

\* `values` holds the fields validated so far (pydantic passes only those).
validate_bbox(v, values) ==
    LET b == Val(v) IN
    IF TruthySeq(v) /\ "intersects" \in DOMAIN values /\ IsSome(values.intersects)
    THEN Fail(Err("bbox", "intersects and bbox parameters are mutually exclusive"))
    ELSE IF TruthySeq(v)
    THEN IF Len(b) # 4 /\ b[6] < b[3]
         THEN Fail(Err("bbox", "Maximum elevation must greater than minimum elevation"))
         ELSE LET xmin == b[1]
                  ymin == b[2]
                  xmax == IF Len(b) = 4 THEN b[3] ELSE b[4]
                  ymax == IF Len(b) = 4 THEN b[4] ELSE b[5]
              IN IF xmax < xmin
                 THEN Fail(Err("bbox", "Maximum longitude must be greater than minimum longitude"))
                 ELSE IF ymax < ymin
                 THEN Fail(Err("bbox", "Maximum longitude must be greater than minimum longitude"))
                 ELSE Ok(v)
    ELSE Ok(v)

\* variant: an intersects validator that never looks at bbox
validate_spatial_unchecked(v, values) == Ok(v)

validate_spatial(v, values) ==
    IF IsSome(v) /\ "bbox" \in DOMAIN values /\ TruthySeq(values.bbox)
    THEN Fail(Err("intersects", "intersects and bbox parameters are mutually exclusive"))
    ELSE Ok(v)

\* str.split("/") on a token sequence: the segments between the "/" tokens
RECURSIVE Split(_)
Split(s) ==
    IF \A i \in 1..Len(s) : s[i] # "/"
    THEN <<s>>
    ELSE LET i == CHOOSE k \in 1..Len(s) :
                      s[k] = "/" /\ \A j \in 1..(k - 1) : s[j] # "/"
         IN <<SubSeq(s, 1, i - 1)>> \o Split(SubSeq(s, i + 1, Len(s)))

TsStrings == {ToString(i) : i \in 1..MaxTs}

\* pydantic parse_datetime: defined on a text that is exactly one timestamp
CanParseDatetime(seg) == Len(seg) = 1 /\ seg[1] \in TsStrings
parse_datetime(seg) == CHOOSE i \in 1..MaxTs : ToString(i) = seg[1]

\* the segment is the text ".." / the empty text
IsDotDot(seg) == seg = <<"..">>
IsEmptyText(seg) == seg = <<>>

\* variant: a datetime validator that checks the format only
validate_datetime_format_only(v) ==
    LET s == Val(v)
        values == IF "/" \in Range(s) THEN Split(s) ELSE <<<<"..">>, s>>
    IN IF \E i \in 1..Len(values) :
              ~IsDotDot(values[i]) /\ ~IsEmptyText(values[i]) /\ ~CanParseDatetime(values[i])
       THEN Fail(Err("datetime", "invalid datetime format"))
       ELSE Ok(v)

validate_datetime(v) ==
    LET s == Val(v)
        values == IF "/" \in Range(s) THEN Split(s) ELSE <<<<"..">>, s>>
        open(i) == IsDotDot(values[i]) \/ IsEmptyText(values[i])
    IN IF \E i \in 1..Len(values) : ~open(i) /\ ~CanParseDatetime(values[i])
       THEN Fail(Err("datetime", "invalid datetime format"))
       ELSE IF (\A i \in 1..Len(values) : ~open(i))
               /\ parse_datetime(values[1]) > parse_datetime(values[2])
       THEN Fail(Err("datetime", "Invalid datetime range, must match format (begin_date, end_date)"))
       ELSE Ok(v)

\* ------------------------------------------------------ filter (cql-json)
\* A cql-json value is a record with a tag j:
\*   [j |-> "prop", name]            {"property": name}
\*   [j |-> "num",  value]           a number literal
\*   [j |-> "geom", type, box, crs]  a GeoJSON geometry mapping (crs: Optional)
\*   [j |-> "op",   key, args]       {key: [args...]}; for key "between"
\*                                   {"between": {"value", "lower", "upper"}}
\* A filter parameter is [form |-> "json" | "text", wellformed, body]: the
\* structured body of a POST, or the JSON text of a GET query string.
GeometryTypes ==
    {"Polygon", "LineString", "Point", "MultiPolygon", "MultiLineString", "MultiPoint"}

\* STACSearch.add_filter_crs: tags geometry mappings in place; it descends
\* lists and mappings and does nothing to any other value (a str included).
RECURSIVE add_filter_crs_node(_, _)
add_filter_crs_node(n, crs) ==
    IF n.j = "geom"
    THEN IF n.type \in GeometryTypes THEN [n EXCEPT !.crs = Some(crs)] ELSE n
    ELSE IF n.j = "op"
    THEN [n EXCEPT !.args = [i \in 1..Len(n.args) |-> add_filter_crs_node(n.args[i], crs)]]
    ELSE n

add_filter_crs(data, crs) ==
    IF data.form = "json"
    THEN [data EXCEPT !.body = add_filter_crs_node(data.body, crs)]
    ELSE data

\* pygeofilter cql-json operator tables
COMPARISON_MAP == {"eq", "lt", "lte", "gt", "gte"}
SPATIAL_PREDICATES_MAP == {"intersects", "within", "disjoint"}
TEMPORAL_PREDICATES_MAP == {"before", "after", "meets", "metby"}
ARRAY_PREDICATES_MAP == {"aequals", "acontains"}
ARITHMETIC_MAP == {"+", "-"}
BinaryKeys ==
    COMPARISON_MAP \cup SPATIAL_PREDICATES_MAP \cup TEMPORAL_PREDICATES_MAP
        \cup ARRAY_PREDICATES_MAP \cup ARITHMETIC_MAP \cup {"and", "or"}

\* pygeofilter parse (walk_cql_json): the AST of a cql-json value.
\*   [kind |-> "attr", name] | [kind |-> "lit", value] | [kind |-> "geom", geom]
\*   [kind |-> "not", sub_node] | [kind |-> "bin", op, lhs, rhs]
\*   [kind |-> "between", lhs, low, high]
RECURSIVE CanParseNode(_)
CanParseNode(n) ==
    CASE n.j = "op" ->
            /\ \/ n.key = "not" /\ Len(n.args) = 1
               \/ n.key \in BinaryKeys /\ Len(n.args) = 2
               \/ n.key = "between" /\ Len(n.args) = 3
            /\ \A i \in 1..Len(n.args) : CanParseNode(n.args[i])
      [] OTHER -> TRUE

\* the AST spells the comparison operators ge / le where cql-json has gte / lte
AstOpName(key) == IF key = "gte" THEN "ge" ELSE IF key = "lte" THEN "le" ELSE key

RECURSIVE ParseNode(_)
ParseNode(n) ==
    CASE n.j = "prop" -> [kind |-> "attr", name |-> n.name]
      [] n.j = "num" -> [kind |-> "lit", value |-> n.value]
      [] n.j = "geom" -> [kind |-> "geom", geom |-> n]
      [] n.j = "op" ->
            IF n.key = "not"
            THEN [kind |-> "not", sub_node |-> ParseNode(n.args[1])]
            ELSE IF n.key = "between"
            THEN [kind |-> "between", lhs |-> ParseNode(n.args[1]),
                  low |-> ParseNode(n.args[2]), high |-> ParseNode(n.args[3])]
            ELSE [kind |-> "bin", op |-> AstOpName(n.key),
                  lhs |-> ParseNode(n.args[1]), rhs |-> ParseNode(n.args[2])]

\* parse_json(values["filter"]): json.loads of a text, then the walk
CanParse(data) == data.wellformed /\ CanParseNode(data.body)
parse_json(data) == ParseNode(data.body)

\* bool(expr) of an AST value: a literal 0 is falsy, every node is truthy
AstTruthy(e) == ~(e.kind = "lit" /\ e.value = 0)

RECURSIVE inOrderFieldCollect_rec(_)
inOrderFieldCollect_rec(expr) ==
    IF ~AstTruthy(expr) THEN <<>>
    ELSE IF expr.kind = "attr" THEN <<expr.name>>
    ELSE IF expr.kind = "not" THEN inOrderFieldCollect_rec(expr.sub_node)
    ELSE IF expr.kind = "bin"
    THEN inOrderFieldCollect_rec(expr.lhs) \o inOrderFieldCollect_rec(expr.rhs)
    ELSE IF expr.kind = "between" THEN inOrderFieldCollect_rec(expr.lhs)
    ELSE <<>>

RECURSIVE inOrderOpsCollect_rec(_)
inOrderOpsCollect_rec(expr) ==
    IF ~AstTruthy(expr) THEN <<>>
    ELSE IF expr.kind = "not" THEN inOrderOpsCollect_rec(expr.sub_node)
    ELSE IF expr.kind = "bin"
    THEN (IF expr.op \in {"and", "or"} THEN <<>> ELSE <<expr.op>>)
             \o inOrderOpsCollect_rec(expr.lhs) \o inOrderOpsCollect_rec(expr.rhs)
    ELSE IF expr.kind = "between" THEN inOrderOpsCollect_rec(expr.lhs)
    ELSE <<>>

\* ------------------------------------------------- Queryables registry
base_queryables == <<"id", "collection", "datetime", "geometry">>
CollectionIds == {"skraafotos2017", "skraafotos2019", "skraafotos2021"}
\* Queryables.collections[c]: the members of SkraafotosProperties
CollectionQueryables(c) == {"direction", "gsd"}

\* variant: an empty list is taken as naming no collection
get_queryable_properties_intersection_no_default(collection_ids) ==
    LET known == Range(collection_ids) \cap CollectionIds
    IN [base |-> base_queryables,
        shared |-> IF known # {}
                   THEN {q \in UNION {CollectionQueryables(c) : c \in known} :
                             \A c \in known : q \in CollectionQueryables(c)}
                   ELSE {}]

get_queryable_properties_intersection(collection_ids) ==
    LET ids == IF Len(collection_ids) = 0 THEN CollectionIds ELSE Range(collection_ids)
        known == ids \cap CollectionIds
        shared == IF known # {}
                  THEN {q \in UNION {CollectionQueryables(c) : c \in known} :
                            \A c \in known : q \in CollectionQueryables(c)}
                  ELSE {}
    IN [base |-> base_queryables, shared |-> shared]

get_all_queryables ==
    Range(base_queryables) \cup UNION {CollectionQueryables(c) : c \in CollectionIds}

\* CoreCrudClient.FIELD_MAPPING: the names to_filter can resolve to a column
FIELD_MAPPING == get_all_queryables

\* every attribute to_filter resolves while it evaluates the whole tree
RECURSIVE AstAttributes(_)
AstAttributes(e) ==
    CASE e.kind = "attr" -> {e.name}
      [] e.kind = "not" -> AstAttributes(e.sub_node)
      [] e.kind = "bin" -> AstAttributes(e.lhs) \cup AstAttributes(e.rhs)
      [] e.kind = "between" ->
            AstAttributes(e.lhs) \cup AstAttributes(e.low) \cup AstAttributes(e.high)
      [] OTHER -> {}

\* to_filter(search_request.filter, FIELD_MAPPING) raises on an unmapped name
FilterUnmapped(sr) ==
    /\ ~TruthySeq(sr.ids)
    /\ IsSome(sr.filter) /\ Val(sr.filter).form = "ast"
    /\ \E a \in AstAttributes(Val(sr.filter).ast) : a \notin FIELD_MAPPING

validate_filter_fields(expr, valid_fields) ==
    LET res == Range(inOrderFieldCollect_rec(expr))
    IN IF \E f \in res : f \notin valid_fields
       THEN [ok |-> FALSE, fields |-> {},
             err |-> Err("__root__", "Cannot search on field: "
                                         \o CHOOSE f \in res : f \notin valid_fields)]
       ELSE [ok |-> TRUE, fields |-> res, err |-> Err("__root__", "")]

validate_filter_ops(expr, valid_ops) ==
    LET res == Range(inOrderOpsCollect_rec(expr))
        canon(op) == IF op = "ge" THEN "gte" ELSE IF op = "le" THEN "lte" ELSE op
    IN \A op \in res : canon(op) \in valid_ops

\* the values["filter_crs"] step of validate_filter (URI -> SRID)
FilterCrsStep(fc) ==
    IF fc \in Range(SupportedCrs)
    THEN [ok |-> TRUE, srid |-> epsg_from_crs(fc)]
    ELSE IF fc \in {ToString(epsg_from_crs(SupportedCrs[i])) : i \in 1..Len(SupportedCrs)}
    THEN [ok |-> TRUE, srid |-> CHOOSE n \in {epsg_from_crs(SupportedCrs[i]) : i \in 1..Len(SupportedCrs)} : ToString(n) = fc]
    ELSE [ok |-> FALSE, srid |-> 0]

\* `values["filter"]` is truthy: not an empty text, an empty mapping or list,
\* or the JSON number 0
TruthyFilter(o) ==
    /\ IsSome(o)
    /\ ~Val(o).empty
    /\ ~(Val(o).form = "json" /\ Val(o).body.j = "num" /\ Val(o).body.value = 0)

\* "# full list of operations supported": the maps merged into valid_ops,
\* minus remove_ops (which is empty)
remove_ops == {}
ValidOps ==
    (COMPARISON_MAP \cup SPATIAL_PREDICATES_MAP \cup TEMPORAL_PREDICATES_MAP
        \cup ARITHMETIC_MAP) \ remove_ops

\* valid_fields: base queryables plus the collections' shared queryables
ValidFieldsOf(q) == Range(q.base) \cup q.shared
ValidFields(values) ==
    ValidFieldsOf(get_queryable_properties_intersection(
        IF "collections" \in DOMAIN values /\ TruthySeq(values.collections)
        THEN Val(values.collections) ELSE <<>>))

RootOk(values) == [values |-> values, errs |-> <<>>]
RootError(values, e) == [values |-> values, errs |-> <<e>>]

\* validate_filter, after parsing: field and operator validation
FilterChecked(values, ast, vf) ==
    IF ~vf.ok THEN RootError(values, vf.err)
    ELSE IF ~validate_filter_ops(ast, ValidOps)
    THEN RootError(values, Err("__root__", "Unsupported operation"))
    ELSE RootOk(("filter_fields" :> Some(vf.fields)) @@
                [values EXCEPT !.filter = Some([form |-> "ast", ast |-> ast])])

FilterParsed(values, ast) ==
    FilterChecked(values, ast, validate_filter_fields(ast, ValidFields(values)))

\* validate_filter, "# Validate filter": parse, or fail
FilterParse(values) ==
    IF ~CanParse(Val(values.filter))
    THEN RootError(values, Err("__root__", "The input cql-json could not be parsed"))
    ELSE IF ~AstTruthy(parse_json(Val(values.filter)))
    THEN RootError(values, Err("__root__", "The input cql-json could not be parsed"))
    ELSE FilterParsed(values, parse_json(Val(values.filter)))

\* validate_filter, "# Validate filter-crs": URI -> SRID, tag the geometries
FilterCrsApplied(values, step) ==
    IF ~step.ok
    THEN RootError(values, CrsErr("__root__", "filter-crs must be a supported CRS"))
    ELSE FilterParse(
           IF step.srid # 4326
           THEN [values EXCEPT !.filter_crs = Some(step.srid),
                               !.filter = Some(add_filter_crs(Val(values.filter), step.srid))]
           ELSE [values EXCEPT !.filter_crs = Some(step.srid)])

\* root validator: returns the (possibly rewritten) values and its errors
validate_filter(values) ==
    IF "filter" \in DOMAIN values /\ TruthyFilter(values.filter)
    THEN IF "filter_lang" \in DOMAIN values /\ values.filter_lang # Some("cql-json")
         THEN RootError(values, Err("__root__", "is not a supported filter-language"))
         ELSE IF "filter_crs" \in DOMAIN values /\ TruthyStr(values.filter_crs)
         THEN FilterCrsApplied(values, FilterCrsStep(Val(values.filter_crs)))
         ELSE FilterParse(values)
    ELSE RootOk(values)

\* ------------------------------------------- pydantic model validation
\* A bbox element is the number its text spells; NotNumber stands for a text
\* that float() and the NumType coercion refuse.
NotNumber == MaxCoord + 1000
IsNumber(tok) == tok # NotNumber

\* STACSearch fields in declaration order (validators run in this order and
\* see only the fields before them)
FieldOrder ==
    <<"ids", "bbox", "intersects", "datetime", "sortby", "collections", "crs",
      "bbox_crs", "pt", "limit", "filter_crs", "filter_lang", "filter",
      "filter_fields">>

FieldDefault(name) ==
    CASE name = "limit" -> Some(DefaultLimit)
      [] name = "filter_crs" -> Some("CRS84")
      [] name = "filter_lang" -> Some("cql-json")
      [] OTHER -> None

\* variant: a limit type conint(gt=0) without the upper bound
TypeOk_unbounded(name, v) ==
    CASE name = "bbox" -> Len(Val(v)) \in {4, 6}
      [] name = "limit" -> Val(v) > 0
      [] OTHER -> TRUE

\* the declared type of a field accepts the (non-None) value
TypeOk(name, v) ==
    CASE name = "bbox" -> Len(Val(v)) \in {4, 6} /\ \A i \in 1..Len(Val(v)) : IsNumber(Val(v)[i])
      [] name = "limit" -> Val(v) > 0 /\ Val(v) <= MaxLimit
      [] name = "sortby" ->
            \A i \in 1..Len(Val(v)) :
                /\ Len(Val(v)[i].field) >= 1
                /\ Val(v)[i].direction \in {"asc", "desc"}
      [] OTHER -> TRUE

ClassValidator(name, v, values) ==
    CASE name = "bbox" -> validate_bbox(v, values)
      [] name = "intersects" -> validate_spatial(v, values)
      [] name = "datetime" -> validate_datetime(v)
      [] name = "crs" -> validate_crs(v)
      [] name = "bbox_crs" -> validate_bbox_crs(v)
      [] name = "filter_crs" -> validate_filter_crs(v)
      [] OTHER -> Ok(v)

\* ModelField.validate: None skips the validators when the field allows None
ValidateField(name, v, values, notNullable) ==
    IF ~IsSome(v)
    THEN IF name \in notNullable
         THEN Fail(Err(name, "none is not an allowed value"))
         ELSE Ok(None)
    ELSE IF ~TypeOk(name, v)
    THEN Fail(Err(name, "value is not valid for the field type"))
    ELSE ClassValidator(name, v, values)

\* validate_model keeps a field's value, or its errors
FieldResult(name, r, values, errs) ==
    IF r.errs = <<>>
    THEN [values |-> (name :> r.val) @@ values, errs |-> errs]
    ELSE [values |-> values, errs |-> errs \o r.errs]

FieldStep(args, name, notNullable, values, errs) ==
    IF name \notin DOMAIN args
    THEN [values |-> (name :> FieldDefault(name)) @@ values, errs |-> errs]
    ELSE FieldResult(name, ValidateField(name, args[name], values, notNullable),
                     values, errs)

RECURSIVE ValidateFields(_, _, _, _, _, _)
ValidateFieldsFrom(args, order, notNullable, i, st) ==
    ValidateFields(args, order, notNullable, i, st.values, st.errs)
ValidateFields(args, order, notNullable, i, values, errs) ==
    IF i > Len(order)
    THEN [values |-> values, errs |-> errs]
    ELSE ValidateFieldsFrom(args, order, notNullable, i + 1,
                            FieldStep(args, order[i], notNullable, values, errs))

\* validate_model: field validators in `order`, then the root validator
\* (which runs whether or not a field failed)
ModelResult(errs, values) == [ok |-> errs = <<>>, values |-> values, errs |-> errs]
RootValidated(f, r) == ModelResult(f.errs \o r.errs, r.values)
FieldsValidated(f) == RootValidated(f, validate_filter(f.values))
ValidateModel(args, order, notNullable) ==
    FieldsValidated(ValidateFields(args, order, notNullable, 1, <<>>, <<>>))

\* STACSearch(**base_args)
STACSearch(args) == ValidateModel(args, FieldOrder, {})

\* The POST body model built by _create_request_model: every field is
\* redeclared as (outer_type_, Body(default)); outer_type_ has lost the
\* Optional, so a field whose default is not None no longer accepts null.
RequestModelNotNullable ==
    {name \in Range(FieldOrder) : FieldDefault(name) # None}

_create_request_model(body) == ValidateModel(body, FieldOrder, RequestModelNotNullable)

\* ------------------------------------------------------------- storage
\* The item table: rows of (id, collection_id, datetime, footprint).  A
\* footprint is a point <<x, y>> in the storage CRS; gsd and direction are
\* the collection properties.
Items ==
    { [id |-> 1, collection |-> "skraafotos2017", datetime |-> 2, pos |-> <<0, 0>>,
       gsd |-> 1, direction |-> 1],
      [id |-> 2, collection |-> "skraafotos2017", datetime |-> 1, pos |-> <<1, 1>>,
       gsd |-> 2, direction |-> 2],
      [id |-> 3, collection |-> "skraafotos2019", datetime |-> 2, pos |-> <<1, 0>>,
       gsd |-> 1, direction |-> 2] }

\* every storage order of the table
Tables == {t \in [1..Cardinality(Items) -> Items] : Range(t) = Items}

\* column names as the texts a sortby token spells
F_id == <<"i", "d">>
F_datetime == <<"d", "a", "t", "e", "t", "i", "m", "e">>

\* item_table.get_field(name): the column a field name denotes
HasField(f) == f \in {F_id, F_datetime}
get_field(f) == IF f = F_id THEN "id" ELSE "datetime"

ColumnValue(item, col) == item[col]

\* ST_Transform of a box between the two coordinate systems of the catalog:
\* EPSG:25832 coordinates are the storage coordinates shifted by one in x.
ST_Transform(box, from, to) ==
    IF from = to THEN box
    ELSE IF from = 25832 THEN <<box[1] - 1, box[2], box[3] - 1, box[4]>>
    ELSE <<box[1] + 1, box[2], box[3] + 1, box[4]>>

ST_Intersects(pos, box) ==
    /\ box[1] <= pos[1] /\ pos[1] <= box[3]
    /\ box[2] <= pos[2] /\ pos[2] <= box[4]

\* monkeypatch_parse_geometry: a filter geometry literal in storage CRS
monkeypatch_parse_geometry(geom) ==
    LET crs == IF IsSome(geom.crs) THEN Val(geom.crs) ELSE 4326
    IN IF crs = 4326 THEN geom.box ELSE ST_Transform(geom.box, crs, 4326)

\* to_filter(ast, FIELD_MAPPING) evaluated on one row
RECURSIVE EvalAst(_, _)
EvalAst(e, item) ==
    CASE e.kind = "attr" ->
            IF e.name = "geometry" THEN item.pos ELSE ColumnValue(item, e.name)
      [] e.kind = "lit" -> e.value
      [] e.kind = "geom" -> monkeypatch_parse_geometry(e.geom)
      [] e.kind = "not" -> ~EvalAst(e.sub_node, item)
      [] e.kind = "between" ->
            /\ EvalAst(e.low, item) <= EvalAst(e.lhs, item)
            /\ EvalAst(e.lhs, item) <= EvalAst(e.high, item)
      [] e.kind = "bin" ->
            LET l == EvalAst(e.lhs, item)
                r == EvalAst(e.rhs, item)
            IN CASE e.op = "and" -> l /\ r
                 [] e.op = "or" -> l \/ r
                 [] e.op \in {"eq", "meets", "metby"} -> l = r
                 [] e.op \in {"lt", "before"} -> l < r
                 [] e.op = "le" -> l <= r
                 [] e.op \in {"gt", "after"} -> l > r
                 [] e.op = "ge" -> l >= r
                 [] e.op = "+" -> l + r
                 [] e.op = "-" -> l - r
                 [] e.op = "disjoint" -> ~ST_Intersects(l, r)
                 [] OTHER -> ST_Intersects(l, r)

\* ---------------------------------------------------------------- query
\* A query is the WHERE clauses and the ORDER BY keys handed to storage.
\* A clause is [kind, args]:
\*   "collection" <<ids>>      collection_id = any of ids
\*   "ids" <<ids>>             id = any of ids
\*   "st_intersects" <<box, srid>>
\*   "dt_eq" <<t>>   "dt_between" <<t...>>   "dt_ge" <<t>>   "dt_le" <<t>>
\*   "filter" <<ast>>
Clause(kind, args) == [kind |-> kind, args |-> args]

SortKey(col, dir) == [col |-> col, dir |-> dir]

\* variant: the user's keys without the id tie-break
SortClause_no_tiebreak(sr) ==
    IF TruthySeq(sr.sortby)
    THEN [i \in 1..Len(Val(sr.sortby)) |->
             SortKey(get_field(Val(sr.sortby)[i].field), Val(sr.sortby)[i].direction)]
    ELSE <<SortKey("datetime", "desc"), SortKey("id", "asc")>>

\* "# Sort": the user's keys then id, or datetime descending then id
SortClause(sr) ==
    IF TruthySeq(sr.sortby)
    THEN [i \in 1..Len(Val(sr.sortby)) |->
             SortKey(get_field(Val(sr.sortby)[i].field), Val(sr.sortby)[i].direction)]
         \o <<SortKey("id", "asc")>>
    ELSE <<SortKey("datetime", "desc"), SortKey("id", "asc")>>

CollectionClause(sr) ==
    IF TruthySeq(sr.collections)
    THEN <<Clause("collection", Val(sr.collections))>>
    ELSE <<>>

\* "# Spatial query"
SpatialClause(sr, exts) ==
    LET b == Val(sr.bbox)
        geom == IF IsSome(sr.intersects) THEN Some(Val(sr.intersects).box)
                ELSE IF TruthySeq(sr.bbox)
                THEN IF Len(b) = 4 THEN Some(b)
                     ELSE IF Len(b) = 6 THEN Some(<<b[1], b[2], b[4], b[5]>>)
                     ELSE None
                ELSE None
        bbox_srid == IF TruthyStr(sr.bbox_crs) /\ "CrsExtension" \in exts
                     THEN epsg_from_crs(Val(sr.bbox_crs))
                     ELSE 4326
    IN IF IsSome(geom)
       THEN <<Clause("st_intersects", <<Val(geom), bbox_srid>>)>>
       ELSE <<>>

\* variant: the open-ended comparisons exchanged
TemporalClause_exchanged(sr) ==
    IF ~TruthySeq(sr.datetime) THEN <<>>
    ELSE LET s == Val(sr.datetime)
             dts == Split(s)
         IN IF Len(dts) = 1 THEN <<Clause("dt_eq", <<dts[1]>>)>>
            ELSE IF ".." \notin Range(s) THEN <<Clause("dt_between", dts)>>
            ELSE IF dts[1] # <<"..">> THEN <<Clause("dt_le", <<dts[1]>>)>>
            ELSE IF dts[2] # <<"..">> THEN <<Clause("dt_ge", <<dts[2]>>)>>
            ELSE <<>>

\* "# Temporal query"
TemporalClause(sr) ==
    IF ~TruthySeq(sr.datetime) THEN <<>>
    ELSE LET s == Val(sr.datetime)
             dts == Split(s)
         IN IF Len(dts) = 1 THEN <<Clause("dt_eq", <<dts[1]>>)>>
            ELSE IF ".." \notin Range(s) THEN <<Clause("dt_between", dts)>>
            ELSE IF dts[1] # <<"..">> THEN <<Clause("dt_ge", <<dts[1]>>)>>
            ELSE IF dts[2] # <<"..">> THEN <<Clause("dt_le", <<dts[2]>>)>>
            ELSE <<>>

FilterClause(sr) ==
    IF IsSome(sr.filter) /\ Val(sr.filter).form = "ast"
    THEN <<Clause("filter", <<Val(sr.filter).ast>>)>>
    ELSE <<>>

\* "# Ignore other parameters if ID is present": Query.order_by appends to
\* the ORDER BY criteria the query already has.
IdsOrderBy(order_by) == order_by \o <<SortKey("id", "asc")>>

\* variant: the id filter added to the other predicates, not replacing them
BuildQuery_all_predicates(sr, exts) ==
    [where |-> CollectionClause(sr)
                   \o (IF TruthySeq(sr.ids) THEN <<Clause("ids", Val(sr.ids))>> ELSE <<>>)
                   \o SpatialClause(sr, exts) \o TemporalClause(sr) \o FilterClause(sr),
     order_by |-> IF TruthySeq(sr.ids) THEN IdsOrderBy(SortClause(sr)) ELSE SortClause(sr)]

BuildQuery(sr, exts) ==
    IF TruthySeq(sr.ids)
    THEN [where |-> CollectionClause(sr) \o <<Clause("ids", Val(sr.ids))>>,
          order_by |-> IdsOrderBy(SortClause(sr))]
    ELSE [where |-> CollectionClause(sr) \o SpatialClause(sr, exts)
                        \o TemporalClause(sr) \o FilterClause(sr),
          order_by |-> SortClause(sr)]

\* the clause cannot be built or executed (bad arity, uncastable timestamp)
ClauseError(c) ==
    CASE c.kind = "dt_between" ->
            Len(c.args) # 2 \/ \E i \in 1..Len(c.args) : ~CanParseDatetime(c.args[i])
      [] c.kind \in {"dt_eq", "dt_ge", "dt_le"} -> ~CanParseDatetime(c.args[1])
      [] OTHER -> FALSE

ClauseHolds(c, item) ==
    CASE c.kind = "collection" -> item.collection \in Range(c.args)
      [] c.kind = "ids" -> item.id \in Range(c.args)
      [] c.kind = "st_intersects" ->
            ST_Intersects(item.pos, ST_Transform(c.args[1], c.args[2], StorageSrid))
      [] c.kind = "dt_eq" -> item.datetime = parse_datetime(c.args[1])
      [] c.kind = "dt_between" ->
            /\ parse_datetime(c.args[1]) <= item.datetime
            /\ item.datetime <= parse_datetime(c.args[2])
      [] c.kind = "dt_ge" -> item.datetime >= parse_datetime(c.args[1])
      [] c.kind = "dt_le" -> item.datetime <= parse_datetime(c.args[1])
      [] c.kind = "filter" -> EvalAst(c.args[1], item)

Matches(where, item) == \A i \in 1..Len(where) : ClauseHolds(where[i], item)

\* the ORDER BY key values of a row
RowKey(item, keys) == [i \in 1..Len(keys) |-> ColumnValue(item, keys[i].col)]

\* key tuple x sorts strictly before key tuple y under keys[k..]
RECURSIVE KeyBefore(_, _, _, _)
KeyBefore(x, y, keys, k) ==
    IF k > Len(keys) THEN FALSE
    ELSE IF x[k] = y[k] THEN KeyBefore(x, y, keys, k + 1)
    ELSE IF keys[k].dir = "asc" THEN x[k] < y[k] ELSE x[k] > y[k]

SortsBefore(a, b, keys, k) == KeyBefore(RowKey(a, keys), RowKey(b, keys), keys, k)

\* ORDER BY: rows that tie on every key keep their storage order
RECURSIVE OrderRows(_, _)
OrderRows(rows, keys) ==
    IF Len(rows) = 0 THEN <<>>
    ELSE LET sorted == OrderRows(SubSeq(rows, 1, Len(rows) - 1), keys)
             r == rows[Len(rows)]
             n == Cardinality({i \in 1..Len(sorted) : ~SortsBefore(r, sorted[i], keys, 1)})
         IN SubSeq(sorted, 1, n) \o <<r>> \o SubSeq(sorted, n + 1, Len(sorted))

Execute(q, table) ==
    OrderRows(SelectSeq(table, LAMBDA item : Matches(q.where, item)), q.order_by)

\* ----------------------------------------------------- keyset pagination
\* A bookmark is [place |-> key tuple, backwards |-> BOOLEAN].  A token is
\* its text: the direction mark followed by the decimal text of each value.
to_token(bookmark) ==
    <<IF bookmark.backwards THEN "<" ELSE ">">>
        \o [i \in 1..Len(bookmark.place) |-> ToString(bookmark.place[i])]

from_token(token) ==
    [place |-> [i \in 1..(Len(token) - 1) |->
                   CHOOSE n \in 0..(Cardinality(Items) + MaxTs) : ToString(n) = token[i + 1]],
     backwards |-> token[1] = "<"]

\* sqlakeyset get_page over the ordered rows of the query; page is an
\* Optional bookmark
Forward(page) == ~IsSome(page) \/ ~Val(page).backwards

PageRows(cand, per_page, page) ==
    IF Len(cand) <= per_page THEN cand
    ELSE IF Forward(page) THEN SubSeq(cand, 1, per_page)
    ELSE SubSeq(cand, Len(cand) - per_page + 1, Len(cand))

\* the marker the page starts from: empty when there is none
Place(page) == IF IsSome(page) THEN Val(page).place ELSE <<>>

\* Paging.next / Paging.previous: the boundary row of the page, else the
\* marker on the side the page was entered from (none on the far side)
Bookmark(items, keys, page, i, backwards) ==
    IF Len(items) > 0
    THEN Some([place |-> RowKey(items[i], keys), backwards |-> backwards])
    ELSE Some([place |-> IF Forward(page) = ~backwards THEN Place(page) ELSE <<>>,
               backwards |-> backwards])

Paging(items, more, keys, page) ==
    [items |-> items,
     has_next |-> IF Forward(page) THEN more ELSE Place(page) # <<>>,
     has_previous |-> IF Forward(page) THEN Place(page) # <<>> ELSE more,
     bookmark_next |-> Bookmark(items, keys, page, Len(items), FALSE),
     bookmark_previous |-> Bookmark(items, keys, page, 1, TRUE)]

PageFrom(cand, keys, per_page, page) ==
    Paging(PageRows(cand, per_page, page), Len(cand) > per_page, keys, page)

\* variant: a forward page starts at the marker row instead of after it
get_page_inclusive(rows, keys, per_page, page) ==
    PageFrom(IF Place(page) = <<>> THEN rows
             ELSE IF Forward(page)
             THEN SelectSeq(rows, LAMBDA r :
                      ~KeyBefore(RowKey(r, keys), Val(page).place, keys, 1))
             ELSE SelectSeq(rows, LAMBDA r :
                      KeyBefore(RowKey(r, keys), Val(page).place, keys, 1)),
             keys, per_page, page)

get_page(rows, keys, per_page, page) ==
    PageFrom(IF Place(page) = <<>> THEN rows
             ELSE IF Forward(page)
             THEN SelectSeq(rows, LAMBDA r :
                      KeyBefore(Val(page).place, RowKey(r, keys), keys, 1))
             ELSE SelectSeq(rows, LAMBDA r :
                      KeyBefore(RowKey(r, keys), Val(page).place, keys, 1)),
             keys, per_page, page)

\* ------------------------------------------------------------ responses
NoQuery == [issued |-> FALSE, where |-> <<>>, order_by |-> <<>>]
NoSearch == [ok |-> FALSE, values |-> <<>>, errs |-> <<>>]
NoResponse ==
    [status |-> 0, detail |-> <<>>, features |-> <<>>, links |-> <<>>, context |-> None,
     fields |-> {}]

Message(text) == [msg |-> text, supported |-> <<>>]
ErrorMessages(errs) == [i \in 1..Len(errs) |-> [msg |-> errs[i].msg, supported |-> errs[i].supported]]

HTTPException(status_code, detail) ==
    [status |-> status_code, detail |-> detail, features |-> <<>>, links |-> <<>>,
     context |-> None, fields |-> {}]

\* an exception no handler of the client catches
ServerError == HTTPException(500, <<>>)

Link(rel, method, params, token) ==
    [rel |-> rel, method |-> method, body |-> ("pt" :> Some(token)) @@ params]

Issued(q) == [issued |-> TRUE, where |-> q.where, order_by |-> q.order_by]

\* variant: both links minted whatever the page reports
PageLinks_unconditional(page, query_params) ==
    <<Link("next", "POST", query_params, to_token(Val(page.bookmark_next))),
      Link("previous", "POST", query_params, to_token(Val(page.bookmark_previous)))>>

\* post_search from "links = []" on: links, features, context block
PageLinks(page, query_params) ==
    (IF page.has_next
     THEN <<Link("next", "POST", query_params, to_token(Val(page.bookmark_next)))>>
     ELSE <<>>)
    \o (IF page.has_previous
        THEN <<Link("previous", "POST", query_params, to_token(Val(page.bookmark_previous)))>>
        ELSE <<>>)

ContextObj(sr, page, count, exts) ==
    IF "ContextExtension" \in exts
    THEN Some([returned |-> Len(page.items), limit |-> Val(sr.limit), matched |-> count])
    ELSE None

\* ------------------------------------------------------ fields extension
\* A field name is a path: <<name>> for a top-level member of an item,
\* <<"properties", key>> for the dotted name properties.key.
ItemPaths ==
    {<<"id">>, <<"collection">>, <<"geometry">>, <<"properties", "datetime">>,
     <<"properties", "gsd">>, <<"properties", "direction">>}

\* Settings: the always-returned fields and the top-level indexed fields
default_includes == {<<"id">>, <<"properties", "datetime">>}
indexed_fields == {"datetime"}

\* SQLAlchemySTACSearch.field, populated from the body member "fields"
RequestField(params) == IF "fields" \in DOMAIN params THEN params.fields ELSE None

\* FieldsExtension._get_field_dict: parent -> `...` (whole) or a set of keys
_get_field_dict(fields) ==
    [p \in {f[1] : f \in fields} |->
        [whole |-> <<p>> \in fields,
         keys |-> {f[2] : f \in {g \in fields : Len(g) = 2 /\ g[1] = p}}]]

\* FieldsExtension.filter_fields
filter_fields(field) ==
    [include |-> _get_field_dict((field.include \ field.exclude) \cup default_includes),
     exclude |-> _get_field_dict(field.exclude)]

\* post_search: the names the filter references, as item paths
QueryInclude(names) ==
    {IF k \in indexed_fields THEN <<k>> ELSE <<"properties", k>> : k \in names}

\* post_search: `if not field.include: field.include = query_include`, else
\* `field.include.union(query_include)`, whose result is dropped
MergedField(field, sr) ==
    IF IsSome(sr.filter) /\ field.include = {}
    THEN [field EXCEPT !.include = QueryInclude(Val(sr.filter_fields))]
    ELSE field

\* Item(**feat).json(include=..., exclude=...): a member is written when the
\* include mapping admits it and the exclude mapping does not name it
Admits(d, path) ==
    /\ path[1] \in DOMAIN d
    /\ Len(path) = 2 => (d[path[1]].whole \/ path[2] \in d[path[1]].keys)
Names(d, path) ==
    /\ path[1] \in DOMAIN d
    /\ IF Len(path) = 1 THEN d[path[1]].whole
       ELSE d[path[1]].whole \/ path[2] \in d[path[1]].keys
Projected(kw) == {path \in ItemPaths : Admits(kw.include, path) /\ ~Names(kw.exclude, path)}

FieldsActive(params, exts) == "FieldsExtension" \in exts /\ IsSome(RequestField(params))

\* post_search: filter_kwargs, {} unless the extension acts on the request
FilterKwargs(sr, params, exts) ==
    IF FieldsActive(params, exts)
    THEN Some(filter_fields(MergedField(Val(RequestField(params)), sr)))
    ELSE None

\* the members every feature of the response carries
OutputFields(sr, params, exts) ==
    IF FieldsActive(params, exts)
    THEN Projected(Val(FilterKwargs(sr, params, exts)))
    ELSE ItemPaths

PageResponse(sr, params, exts, page, count) ==
    [status |-> 200, detail |-> <<>>,
     features |-> [i \in 1..Len(page.items) |-> page.items[i].id],
     links |-> PageLinks(page, With("limit" \notin DOMAIN params, "limit", sr.limit, params)),
     context |-> ContextObj(sr, page, count, exts),
     fields |-> OutputFields(sr, params, exts),
     filter_kwargs |-> FilterKwargs(sr, params, exts)]

\* the matched count: len(ids) for an id list, else the COUNT query
Count(sr, rows) == IF TruthySeq(sr.ids) THEN Len(Val(sr.ids)) ELSE Len(rows)

PageToken(sr) == IF IsSome(sr.pt) THEN Some(from_token(Val(sr.pt))) ELSE None

Executed(sr, params, exts, q, rows) ==
    IF FieldsActive(params, exts) /\ IsSome(sr.filter) /\ ~IsSome(sr.filter_fields)
    THEN [query |-> Issued(q), response |-> ServerError]
    ELSE
    [query |-> Issued(q),
     response |-> PageResponse(sr, params, exts,
                               get_page(rows, q.order_by, Val(sr.limit), PageToken(sr)),
                               Count(sr, rows))]

QueryBuilt(sr, params, table, exts, q) ==
    IF \E i \in 1..Len(q.where) : ClauseError(q.where[i])
    THEN [query |-> Issued(q), response |-> ServerError]
    ELSE Executed(sr, params, exts, q, Execute(q, table))

\* CoreCrudClient.post_search; params are the parameters of the originating
\* request (the JSON body of a direct POST, else the query parameters)
post_search(sr, is_direct_post, params, table, exts) ==
    IF TruthySeq(sr.sortby)
       /\ \E i \in 1..Len(Val(sr.sortby)) : ~HasField(Val(sr.sortby)[i].field)
    THEN [query |-> NoQuery, response |-> ServerError]
    ELSE IF FilterUnmapped(sr)
    THEN [query |-> NoQuery, response |-> ServerError]
    ELSE QueryBuilt(sr, params, table, exts, BuildQuery(sr, exts))

\* --------------------------------------------------------- entry points
Supplied(raw) == [k \in {n \in DOMAIN raw : IsSome(raw[n])} |-> raw[k]]

\* FilterableRequest / SearchGetRequest.kwargs: the query parameters as the
\* endpoint receives them (limit defaults to 10; every other absent
\* parameter is passed on as None)
SearchGetRequest_kwargs(q) ==
    [q EXCEPT !.limit = IF IsSome(q.limit) THEN q.limit ELSE Some(DefaultLimit)]

\* get_search: one sortby token -> {"field", "direction"}
SortParam(sort) ==
    [field |-> Tail(sort), direction |-> IF Head(sort) = "+" THEN "asc" ELSE "desc"]

GetSearchArgs(kw) ==
    LET base == [collections |-> kw.collections, ids |-> kw.ids, bbox |-> kw.bbox,
                 limit |-> kw.limit, filter |-> kw.filter,
                 filter_lang |-> kw.filter_lang, filter_crs |-> kw.filter_crs,
                 pt |-> kw.pt]
        a1 == With(TruthyStr(kw.crs), "crs", kw.crs, base)
        a2 == With(TruthyStr(kw.bbox_crs), "bbox_crs", kw.bbox_crs, a1)
        a3 == With(TruthySeq(kw.datetime), "datetime", kw.datetime, a2)
    IN With(TruthySeq(kw.sortby), "sortby",
            Some([i \in 1..Len(Val(kw.sortby)) |-> SortParam(Val(kw.sortby)[i])]), a3)

\* variant: the request's parameters take precedence over the link body
GetLinks_params_first(links, params, limit, addLimit) ==
    [i \in 1..Len(links) |->
        [rel |-> links[i].rel, method |-> "GET", body |-> params @@ links[i].body]]

\* "# Pagination" of get_search / item_collection: the link becomes a GET
\* link whose query string is the request's parameters updated by the body
GetLinks(links, params, limit, addLimit) ==
    [i \in 1..Len(links) |->
        LET qp == links[i].body @@ params
        IN [rel |-> links[i].rel, method |-> "GET",
            body |-> IF addLimit /\ "limit" \notin DOMAIN qp
                     THEN ("limit" :> limit) @@ qp ELSE qp]]

Rejected(search_request, detail) ==
    [search |-> search_request, query |-> NoQuery,
     response |-> HTTPException(400, detail)]

Searched2(search_request, r) ==
    [search |-> search_request, query |-> r.query, response |-> r.response]

Searched(search_request, r, links) ==
    [search |-> search_request, query |-> r.query,
     response |-> [r.response EXCEPT !.links = links]]

GetSearched(search_request, r, params, limit, addLimit) ==
    Searched(search_request, r, GetLinks(r.response.links, params, limit, addLimit))

GetSearchRequest(search_request, kw, params, table, exts) ==
    IF ~search_request.ok
    THEN Rejected(search_request,
                  <<Message("Invalid parameters provided")>>
                      \o ErrorMessages(search_request.errs))
    ELSE GetSearched(search_request,
                     post_search(search_request.values, FALSE, params, table, exts),
                     params, kw.limit, FALSE)

get_search(kw, params, table, exts) ==
    GetSearchRequest(STACSearch(GetSearchArgs(kw)), kw, params, table, exts)

CrsDetail(arg) ==
    <<[msg |-> "CRS provided for argument " \o arg \o " is invalid, valid options are: ",
       supported |-> SupportedCrs]>>

ItemCollectionArgs(id, kw) ==
    LET base == [collections |-> Some(<<id>>), ids |-> kw.ids, limit |-> kw.limit,
                 pt |-> kw.pt, filter |-> kw.filter, filter_lang |-> kw.filter_lang,
                 filter_crs |-> kw.filter_crs]
        a1 == With(TruthySeq(kw.datetime), "datetime", kw.datetime, base)
        a2 == With(IsSome(kw.bbox_crs), "bbox_crs", kw.bbox_crs, a1)
        a3 == With(TruthySeq(kw.bbox), "bbox", kw.bbox, a2)
    IN With(TruthyStr(kw.crs), "crs", kw.crs, a3)

ItemCollectionRequest(search_request, kw, params, table, exts) ==
    IF ~search_request.ok
    THEN Rejected(search_request, <<Message("Invalid parameters provided")>>)
    ELSE GetSearched(search_request,
                     post_search(search_request.values, FALSE, params, table, exts),
                     params, kw.limit, TRUE)

item_collection(id, kw, params, table, exts) ==
    IF IsSome(kw.bbox_crs) /\ ~is_crs_supported(Val(kw.bbox_crs))
    THEN Rejected(NoSearch, CrsDetail("bbox_crs"))
    ELSE IF TruthySeq(kw.bbox) /\ \E i \in 1..Len(Val(kw.bbox)) : ~IsNumber(Val(kw.bbox)[i])
    THEN [search |-> NoSearch, query |-> NoQuery, response |-> ServerError]
    ELSE IF TruthyStr(kw.crs) /\ ~is_crs_supported(Val(kw.crs))
    THEN Rejected(NoSearch, CrsDetail("crs"))
    ELSE ItemCollectionRequest(STACSearch(ItemCollectionArgs(id, kw)),
                               kw, params, table, exts)

\* POST /search: the body is validated into the request model before the
\* handler runs; a body that fails never reaches post_search
PostRequest(search_request, body, table, exts) ==
    IF ~search_request.ok
    THEN Rejected(search_request, ErrorMessages(search_request.errs))
    ELSE Searched2(search_request,
                   post_search(search_request.values, TRUE, body, table, exts))

post_endpoint(body, table, exts) ==
    PostRequest(_create_request_model(body), body, table, exts)

\* CoreCrudClient.get_item: the row _lookup_id finds by item id, serialized;
\* NotFoundError is answered with status 404
get_item(item_id, collection_id, crs, table, exts) ==
    IF TruthyStr(crs) /\ "CrsExtension" \in exts /\ ~is_crs_supported(Val(crs))
    THEN Rejected(NoSearch, CrsDetail("crs"))
    ELSE LET rows == SelectSeq(table, LAMBDA row : row.id = item_id)
             q == [where |-> <<Clause("ids", <<item_id>>)>>, order_by |-> <<>>]
         IN IF Len(rows) = 0
            THEN [search |-> NoSearch, query |-> Issued(q),
                  response |-> HTTPException(404, <<Message("ImageView not found")>>)]
            ELSE [search |-> NoSearch, query |-> Issued(q),
                  response |-> [status |-> 200, detail |-> <<>>, features |-> <<rows[1].id>>,
                                links |-> <<>>, context |-> None, fields |-> ItemPaths,
                                filter_kwargs |-> None]]

\* ------------------------------------------------- CoreFiltersClient
\* the rows of the collection table
CollectionTable == CollectionIds

\* CoreCrudClient._lookup_id on the collection table; `fails` is a failure
\* of the storage session during the lookup
_lookup_id(id, fails) ==
    IF fails THEN "StorageError"
    ELSE IF id \in CollectionTable THEN "row" ELSE "NotFoundError"

\* CoreFiltersClient.validate_collection: TRUE when it returns, FALSE when it
\* raises ValueError (its bare `except:` catches whatever the lookup raises)
validate_collection(value, fails) == _lookup_id(value, fails) = "row"

Lookup(outcome) ==
    [issued |-> outcome # "none", where |-> <<>>, order_by |-> <<>>, outcome |-> outcome]

QueryablesSchema(id, q) ==
    [status |-> 200, detail |-> <<>>, features |-> <<>>, links |-> <<>>, context |-> None,
     fields |-> {}, title |-> id, properties |-> Range(q.base) \cup q.shared]

\* CoreFiltersClient.get_queryables; collection_id is None on /queryables
get_queryables(collection_id, fails) ==
    IF IsSome(collection_id) /\ ~validate_collection(Val(collection_id), fails)
    THEN [search |-> NoSearch,
          query |-> Lookup(_lookup_id(Val(collection_id), fails)),
          response |-> HTTPException(400, <<Message("Invalid parameters provided"),
                                            Message("Collection doesn't exist")>>)]
    ELSE [search |-> NoSearch,
          query |-> Lookup(IF IsSome(collection_id) THEN "row" ELSE "none"),
          response |-> QueryablesSchema(collection_id,
                           get_queryable_properties_intersection(
                               IF TruthyStr(collection_id) THEN <<Val(collection_id)>>
                               ELSE <<>>))]

\* ------------------------------------------- shared read-only objects
\* what the process holds at startup: Queryables.base_queryables,
\* Queryables.collections and Settings.default_includes
Startup ==
    [base_queryables |-> base_queryables,
     collections |-> [c \in CollectionIds |-> CollectionQueryables(c)],
     default_includes |-> default_includes]

RECURSIVE ListOf(_)
ListOf(S) ==
    IF S = {} THEN <<>>
    ELSE LET x == CHOOSE y \in S : TRUE IN <<x>> \o ListOf(S \ {x})

\* a local name is [own, value]: own says the name is bound to the
\* registry's list object itself.  `a + b` builds a new list.
list_iadd(a, b) == [a EXCEPT !.value = @ \o b]
list_add(a, b) == [own |-> FALSE, value |-> a.value \o b]

\* the registry once the code is done with a name it bound to base_queryables
Rebound(sh, local) ==
    IF local.own THEN [sh EXCEPT !.base_queryables = local.value] ELSE sh

\* get_all_queryables: all_queryables starts as cls.base_queryables and is
\* rebound to all_queryables + [...] once per collection
RECURSIVE AllQueryablesLoop(_, _, _)
AllQueryablesLoop(sh, todo, all_queryables) ==
    IF todo = {} THEN all_queryables
    ELSE LET c == CHOOSE x \in todo : TRUE
         IN AllQueryablesLoop(sh, todo \ {c},
                              list_add(all_queryables, ListOf(sh.collections[c])))
get_all_queryables_shared(sh) ==
    Rebound(sh, AllQueryablesLoop(sh, DOMAIN sh.collections,
                                  [own |-> TRUE, value |-> sh.base_queryables]))

\* validate_filter: valid_fields = base_queryables + collection_queryables,
\* base_queryables being the list the registry returned
valid_fields_shared(sh, values) ==
    Rebound(sh, list_add([own |-> TRUE, value |-> sh.base_queryables],
                         ListOf(get_queryable_properties_intersection(
                                    IF "collections" \in DOMAIN values
                                       /\ TruthySeq(values.collections)
                                    THEN Val(values.collections) ELSE <<>>).shared)))

\* get_queryables: queryables.sort() sorts the fresh list(shared_queryables);
\* the loop runs over base_queryables + queryables
get_queryables_shared(sh, collection_id) ==
    Rebound(sh, list_add([own |-> TRUE, value |-> sh.base_queryables],
                         ListOf(get_queryable_properties_intersection(
                                    IF TruthyStr(collection_id)
                                    THEN <<Val(collection_id)>> ELSE <<>>).shared)))

\* filter_fields: include is the new set include - exclude, and `|=` adds
\* default_includes to that set in place
filter_fields_shared(sh, field) ==
    LET include == [own |-> FALSE, value |-> field.include \ field.exclude]
        after == [include EXCEPT !.value = @ \cup sh.default_includes]
    IN IF after.own THEN [sh EXCEPT !.default_includes = after.value] ELSE sh

\* the validator got as far as valid_fields
ValidFieldsReached(sr) ==
    \/ sr.ok /\ "filter" \in DOMAIN sr.values /\ IsSome(sr.values.filter)
    \/ \E i \in 1..Len(sr.errs) :
            /\ sr.errs[i].loc = "__root__"
            /\ sr.errs[i].msg \notin {"is not a supported filter-language",
                                      "filter-crs must be a supported CRS",
                                      "The input cql-json could not be parsed"}

\* the shared objects after entry point `name` served request raw with
\* outcome out
SharedAfter(name, raw, out, sh) ==
    IF name = "get_queryables"
    THEN IF out.response.status = 200 THEN get_queryables_shared(sh, raw.id) ELSE sh
    ELSE LET validated == IF ValidFieldsReached(out.search)
                          THEN valid_fields_shared(sh, out.search.values) ELSE sh
         IN IF out.response.status = 200 /\ IsSome(out.response.filter_kwargs)
            THEN filter_fields_shared(validated,
                                      MergedField(Val(RequestField(raw)), out.search.values))
            ELSE validated

\* ---------------------------------------------------------------- state
VARIABLES
    storage,     \* the item table, in storage order
    extensions,  \* the names of the enabled API extensions
    pc,          \* "idle" before the request, "done" after the response
    entry,       \* the entry point that served the request
    request,     \* the request parameters as the client sent them
    search,      \* the outcome of normalisation (STACSearch construction)
    query,       \* the query handed to storage, if one was issued
    response,    \* the response returned to the client
    pages,       \* the feature lists the client got since its first request
    shared       \* the registry's and the settings' objects, as they are now

vars == <<storage, extensions, pc, entry, request, search, query, response, pages,
          shared>>

ExtensionConfigs == {{"CrsExtension", "ContextExtension"}, {"CrsExtension"}}

Init ==
    /\ storage \in Tables
    /\ extensions \in ExtensionConfigs
    /\ pc = "idle"
    /\ entry = "none"
    /\ request = <<>>
    /\ search = NoSearch
    /\ query = NoQuery
    /\ response = NoResponse
    /\ pages = <<>>
    /\ shared = Startup

Respond(name, raw, out) ==
    /\ pc' = "done"
    /\ entry' = name
    /\ request' = raw
    /\ search' = out.search
    /\ query' = out.query
    /\ response' = out.response
    /\ pages' = <<out.response.features>>
    /\ shared' = SharedAfter(name, raw, out, shared)
    /\ UNCHANGED <<storage, extensions>>

\* GET /search with query parameters q
GetSearch(q) ==
    /\ pc = "idle"
    /\ Respond("get_search", q,
               get_search(SearchGetRequest_kwargs(q), Supplied(q), storage, extensions))

\* GET /collections/{id}/items with query parameters q
ItemCollection(q) ==
    /\ pc = "idle"
    /\ Respond("item_collection", q,
               item_collection(q.id, SearchGetRequest_kwargs(q),
                               Supplied([k \in DOMAIN q \ {"id"} |-> q[k]]),
                               storage, extensions))

\* POST /search with JSON body b
PostSearch(b) ==
    /\ pc = "idle"
    /\ Respond("post_search", b, post_endpoint(b, storage, extensions))

\* Queryables.get_queryable_properties_intersection(ids), called on its own
QueryableProperties(ids) ==
    /\ pc = "idle"
    /\ pc' = "done"
    /\ entry' = "queryables"
    /\ request' = [collections |-> ids]
    /\ response' = get_queryable_properties_intersection(ids)
    /\ UNCHANGED <<storage, extensions, search, query, pages, shared>>

\* Queryables.get_all_queryables(), called on its own
GetAllQueryables ==
    /\ pc = "idle"
    /\ pc' = "done"
    /\ entry' = "get_all_queryables"
    /\ request' = <<>>
    /\ response' = [all |-> get_all_queryables]
    /\ shared' = get_all_queryables_shared(shared)
    /\ UNCHANGED <<storage, extensions, search, query, pages>>

\* the process goes on to serve its next request
NextRequest ==
    /\ pc = "done"
    /\ pc' = "idle"
    /\ entry' = "none"
    /\ request' = <<>>
    /\ search' = NoSearch
    /\ query' = NoQuery
    /\ response' = NoResponse
    /\ pages' = <<>>
    /\ UNCHANGED <<storage, extensions, shared>>

\* the client re-issues its request with pt set to the token of the next
\* link it was given
NextLinks == SelectSeq(response.links, LAMBDA l : l.rel = "next")
Reissued == ("pt" :> NextLinks[1].body.pt) @@ request
Reissue(out) ==
    /\ request' = Reissued
    /\ search' = out.search
    /\ query' = out.query
    /\ response' = out.response
    /\ pages' = Append(pages, out.response.features)
    /\ shared' = SharedAfter(entry, Reissued, out, shared)
    /\ UNCHANGED <<storage, extensions, pc, entry>>
FollowNext ==
    /\ pc = "done"
    /\ entry \in {"get_search", "item_collection", "post_search"}
    /\ response.status = 200
    /\ Len(NextLinks) > 0
    /\ Reissue(CASE entry = "get_search" ->
                      get_search(SearchGetRequest_kwargs(Reissued), Supplied(Reissued),
                                 storage, extensions)
                  [] entry = "item_collection" ->
                      item_collection(Reissued.id, SearchGetRequest_kwargs(Reissued),
                                      Supplied([k \in DOMAIN Reissued \ {"id"} |-> Reissued[k]]),
                                      storage, extensions)
                  [] entry = "post_search" -> post_endpoint(Reissued, storage, extensions))

\* GET /collections/{collectionId}/items/{itemId}
GetItem(u) ==
    /\ pc = "idle"
    /\ Respond("get_item", u,
               get_item(u.item_id, u.collection_id, u.crs, storage, extensions))

\* GET /queryables and GET /collections/{id}/queryables
GetQueryables(id, fails) ==
    /\ pc = "idle"
    /\ Respond("get_queryables", [id |-> id], get_queryables(id, fails))

\* ------------------------------------------------------ request inputs
GetBlank ==
    [collections |-> None, ids |-> None, bbox |-> None, bbox_crs |-> None,
     datetime |-> None, limit |-> None, filter |-> None, filter_lang |-> None,
     filter_crs |-> None, pt |-> None, crs |-> None, sortby |-> None]

ItemBlank ==
    [id |-> "skraafotos2017", ids |-> None, bbox |-> None, bbox_crs |-> None,
     datetime |-> None, limit |-> None, filter |-> None, filter_lang |-> None,
     filter_crs |-> None, pt |-> None, crs |-> None]

\* a JSON body: the keys of rec whose value is supplied
Body(rec) == Supplied(rec)

BBoxes == [1..4 -> 0..MaxCoord] \cup [1..6 -> 0..MaxCoord]
Geometries ==
    { [type |-> "Polygon", box |-> <<0, 0, 1, 1>>],
      [type |-> "Point", box |-> <<1, 1, 1, 1>>] }
Datetimes == SeqsUpTo({"/", ".."} \cup TsStrings, MaxDtLen) \ {<<>>}
IdLists == {<<1>>, <<3, 1>>, <<2, 1, 3>>, <<4>>}
OptOf(S) == {None} \cup {Some(x) : x \in S}

\* a JSON body with an explicit null for key name
WithNull(name, body) == (name :> None) @@ body

ItemById(id) == CHOOSE item \in Items : item.id = id

\* the value of a request parameter, None when the request does not carry it
Param(name) == IF name \in DOMAIN request THEN request[name] ELSE None

\* spatial parameters
SpatialGetInputs == {[GetBlank EXCEPT !.bbox = Some(b)] : b \in BBoxes}
SpatialItemInputs == {[ItemBlank EXCEPT !.bbox = Some(b)] : b \in BBoxes}
SpatialPostInputs ==
    {Body([bbox |-> b, intersects |-> g, ids |-> i]) :
        b \in OptOf(BBoxes), g \in OptOf(Geometries), i \in OptOf({<<1>>})}

NextSpatial ==
    \/ \E q \in SpatialGetInputs : GetSearch(q)
    \/ \E q \in SpatialItemInputs : ItemCollection(q)
    \/ \E b \in SpatialPostInputs : PostSearch(b)

SpecSpatial == Init /\ [][NextSpatial]_vars

\* limit parameter
Limits == {-1, 0, 1, 2, DefaultLimit, MaxLimit - 1, MaxLimit, MaxLimit + 1}
LimitGetInputs ==
    {[GetBlank EXCEPT !.limit = l, !.ids = i] : l \in OptOf(Limits), i \in OptOf(IdLists)}
LimitItemInputs ==
    {[ItemBlank EXCEPT !.limit = l, !.ids = i] : l \in OptOf(Limits), i \in OptOf(IdLists)}
LimitPostInputs ==
    {Body([limit |-> l, ids |-> i]) : l \in OptOf(Limits), i \in OptOf(IdLists)}
        \cup {WithNull("limit", Body([ids |-> i])) : i \in OptOf(IdLists)}

NextLimit ==
    \/ \E q \in LimitGetInputs : GetSearch(q)
    \/ \E q \in LimitItemInputs : ItemCollection(q)
    \/ \E b \in LimitPostInputs : PostSearch(b)

SpecLimit == Init /\ [][NextLimit]_vars

\* CRS parameters
CrsValues == {"", "CRS84", "EPSG:25832", "EPSG:3857"}

\* the cql-json filter  intersects(geometry, POLYGON(0 0, 1 1))
GeomFilterBody ==
    [j |-> "op", key |-> "intersects",
     args |-> <<[j |-> "prop", name |-> "geometry"],
                [j |-> "geom", type |-> "Polygon", box |-> <<0, 0, 1, 1>>, crs |-> None]>>]
\* a filter as a POST body carries it / as a GET query string carries it
JsonFilter(body) == [form |-> "json", empty |-> FALSE, wellformed |-> TRUE, body |-> body]
TextFilter(body) == [form |-> "text", empty |-> FALSE, wellformed |-> TRUE, body |-> body]

CrsGetInputs ==
    {[GetBlank EXCEPT !.crs = c, !.bbox_crs = bc, !.filter_crs = fc, !.bbox = b,
                      !.filter = f,
                      !.filter_lang = IF IsSome(f) THEN Some("cql-json") ELSE None] :
        c \in OptOf(CrsValues), bc \in OptOf(CrsValues), fc \in OptOf(CrsValues),
        b \in OptOf({<<0, 0, 1, 1>>}), f \in OptOf({TextFilter(GeomFilterBody)})}
CrsItemInputs ==
    {[ItemBlank EXCEPT !.crs = c, !.bbox_crs = bc, !.filter_crs = fc, !.bbox = b,
                       !.filter = f,
                       !.filter_lang = IF IsSome(f) THEN Some("cql-json") ELSE None] :
        c \in OptOf(CrsValues), bc \in OptOf(CrsValues), fc \in OptOf(CrsValues),
        b \in OptOf({<<0, 0, 1, 1>>}), f \in OptOf({TextFilter(GeomFilterBody)})}
CrsPostInputs ==
    {Body([crs |-> c, bbox_crs |-> bc, filter_crs |-> fc, bbox |-> b, filter |-> f]) :
        c \in OptOf(CrsValues), bc \in OptOf(CrsValues), fc \in OptOf(CrsValues),
        b \in OptOf({<<0, 0, 1, 1>>}), f \in OptOf({JsonFilter(GeomFilterBody)})}

NextCrs ==
    \/ \E q \in CrsGetInputs : GetSearch(q)
    \/ \E q \in CrsItemInputs : ItemCollection(q)
    \/ \E b \in CrsPostInputs : PostSearch(b)

SpecCrs == Init /\ [][NextCrs]_vars

\* filter parameter: cql-json trees over a known base field, a collection
\* property and a name no collection registers
Prop(name) == [j |-> "prop", name |-> name]
Num(value) == [j |-> "num", value |-> value]
Op(key, args) == [j |-> "op", key |-> key, args |-> args]
FilterNames == {"id", "gsd", "secret"}
FilterLeaves ==
    {Op("eq", <<Prop(p), Num(1)>>) : p \in FilterNames}
        \cup {Op("lte", <<Num(1), Prop(p)>>) : p \in FilterNames}
FilterNested ==
    {Op("not", <<l>>) : l \in FilterLeaves}
        \cup {Op("and", <<l, Op("eq", <<Prop("id"), Num(1)>>)>>) : l \in FilterLeaves}
        \cup {Op("or", <<Op("gt", <<Prop("id"), Num(1)>>), l>>) : l \in FilterLeaves}
        \cup {Op("not", <<Op("and", <<Op("eq", <<Prop("id"), Num(1)>>), Op("not", <<l>>)>>)>>) :
                 l \in FilterLeaves}
FilterTernary ==
    {Op("between", <<Prop(p), low, Num(2)>>) :
        p \in FilterNames, low \in {Num(1), Prop("gsd"), Prop("secret")}}
FilterOperators ==
    {Op(k, <<Prop("datetime"), Num(2)>>) : k \in {"meets", "metby", "before", "aequals"}}
FilterBodies == FilterLeaves \cup FilterNested \cup FilterTernary \cup FilterOperators
\* the empty text / the empty mapping, a text that is not JSON, the number 0
EmptyFilter(form) == [form |-> form, empty |-> TRUE, wellformed |-> TRUE, body |-> Num(0)]
Malformed(form) == [form |-> form, empty |-> FALSE, wellformed |-> FALSE, body |-> Num(0)]
FilterTexts ==
    {TextFilter(b) : b \in FilterBodies \cup {Num(0)}}
        \cup {EmptyFilter("text"), Malformed("text")}
FilterJsons ==
    {JsonFilter(b) : b \in FilterBodies \cup {Num(0)}} \cup {EmptyFilter("json")}
FilterCollections ==
    {<<"skraafotos2017">>, <<"nope">>, <<"skraafotos2017", "nope">>}

FilterGetInputs ==
    {[GetBlank EXCEPT !.filter = Some(f), !.filter_lang = Some("cql-json"),
                      !.collections = c] :
        f \in FilterTexts, c \in OptOf(FilterCollections)}
FilterItemInputs ==
    {[ItemBlank EXCEPT !.filter = Some(f), !.filter_lang = Some("cql-json")] :
        f \in FilterTexts}
FilterPostInputs ==
    {Body([filter |-> Some(f), collections |-> c]) :
        f \in FilterJsons, c \in OptOf(FilterCollections)}

NextFilter ==
    \/ \E q \in FilterGetInputs : GetSearch(q)
    \/ \E q \in FilterItemInputs : ItemCollection(q)
    \/ \E b \in FilterPostInputs : PostSearch(b)

SpecFilter == Init /\ [][NextFilter]_vars

\* item URIs: every stored id and one that is stored nowhere, under every
\* collection and one that does not exist, with and without a crs
ItemUris ==
    [item_id : 1..(Cardinality(Items) + 1),
     collection_id : CollectionIds \cup {"nope"},
     crs : {None, Some("EPSG:25832"), Some("EPSG:1")}]

NextItem == \E u \in ItemUris : GetItem(u)

SpecItem == Init /\ [][NextItem]_vars

\* valid filters with the filter-lang parameter omitted, set to cql-json and
\* set to a language the service does not know
LangFilterBodies == {Op("eq", <<Prop(p), Num(1)>>) : p \in {"id", "gsd", "datetime"}}
FilterLangs == {None, Some("cql-json"), Some("cql-text")}
LangGetInputs ==
    {[GetBlank EXCEPT !.filter = Some(TextFilter(b)), !.filter_lang = l, !.collections = c] :
        b \in LangFilterBodies, l \in FilterLangs, c \in {None, Some(<<"skraafotos2017">>)}}
LangItemInputs ==
    {[ItemBlank EXCEPT !.filter = Some(TextFilter(b)), !.filter_lang = l] :
        b \in LangFilterBodies, l \in FilterLangs}
LangPostInputs ==
    {Body([filter |-> Some(JsonFilter(b)), filter_lang |-> l]) :
        b \in LangFilterBodies, l \in FilterLangs}

NextFilterLang ==
    \/ \E q \in LangGetInputs : GetSearch(q)
    \/ \E q \in LangItemInputs : ItemCollection(q)
    \/ \E b \in LangPostInputs : PostSearch(b)

SpecFilterLang == Init /\ [][NextFilterLang]_vars

\* collection id lists: the registered ids and one that is not registered
CollectionLists == SeqsUpTo(CollectionIds \cup {"nope"}, MaxCollections)

NextQueryables ==
    \/ \E ids \in CollectionLists : QueryableProperties(ids)
    \/ \E id \in OptOf(CollectionIds \cup {"nope"}), fails \in BOOLEAN :
            GetQueryables(id, fails)

SpecQueryables == Init /\ [][NextQueryables]_vars

\* fields parameter of a POST body, with and without a filter, on a
\* deployment that may enable the fields extension
FieldsConfigs ==
    {{"CrsExtension", "ContextExtension", "FieldsExtension"},
     {"CrsExtension", "ContextExtension"}}
FieldChoices == {<<"id">>, <<"properties", "datetime">>, <<"properties", "gsd">>}
FieldSets == [include : SUBSET FieldChoices, exclude : SUBSET FieldChoices]
FieldsFilters ==
    {JsonFilter(Op("eq", <<Prop(p), Num(1)>>)) : p \in {"gsd", "direction"}}
FieldsPostInputs ==
    {Body([filter |-> f, fields |-> fs]) :
        f \in OptOf(FieldsFilters), fs \in OptOf(FieldSets)}
FieldsGetInputs ==
    {[GetBlank EXCEPT !.filter = Some(TextFilter(Op("eq", <<Prop(p), Num(1)>>))),
                      !.filter_lang = Some("cql-json")] : p \in {"gsd", "direction"}}

InitFields ==
    /\ storage \in Tables
    /\ extensions \in FieldsConfigs
    /\ pc = "idle"
    /\ entry = "none"
    /\ request = <<>>
    /\ search = NoSearch
    /\ query = NoQuery
    /\ response = NoResponse
    /\ pages = <<>>
    /\ shared = Startup

NextFields ==
    \/ \E q \in FieldsGetInputs : GetSearch(q)
    \/ \E b \in FieldsPostInputs : PostSearch(b)

SpecFields == InitFields /\ [][NextFields]_vars

\* a process that serves one request after another: registry calls,
\* queryables documents and searches with filters and field selections
NextShared ==
    \/ \E ids \in CollectionLists : QueryableProperties(ids)
    \/ GetAllQueryables
    \/ \E id \in OptOf(CollectionIds \cup {"nope"}) : GetQueryables(id, FALSE)
    \/ \E q \in FieldsGetInputs : GetSearch(q)
    \/ \E b \in FieldsPostInputs : PostSearch(b)
    \/ NextRequest

SpecShared == InitFields /\ [][NextShared]_vars

\* match counting: id lists with a known, a repeated, an unknown and several
\* ids, against a collection filter, a bbox and a page size
ContextIds == {<<1>>, <<1, 1>>, <<4>>, <<3, 1>>}
ContextGetInputs ==
    {[GetBlank EXCEPT !.ids = i, !.collections = c, !.limit = l, !.bbox = b] :
        i \in OptOf(ContextIds), c \in OptOf({<<"skraafotos2019">>}),
        l \in OptOf({1}), b \in OptOf({<<1, 0, 1, 1>>})}
ContextItemInputs ==
    {[ItemBlank EXCEPT !.ids = i, !.limit = l, !.bbox = b] :
        i \in OptOf(ContextIds), l \in OptOf({1}), b \in OptOf({<<1, 0, 1, 1>>})}
ContextPostInputs ==
    {Body([ids |-> i, collections |-> c, limit |-> l, bbox |-> b]) :
        i \in OptOf(ContextIds), c \in OptOf({<<"skraafotos2019">>}),
        l \in OptOf({1}), b \in OptOf({<<1, 0, 1, 1>>})}

NextContext ==
    \/ \E q \in ContextGetInputs : GetSearch(q)
    \/ \E q \in ContextItemInputs : ItemCollection(q)
    \/ \E b \in ContextPostInputs : PostSearch(b)

SpecContext == Init /\ [][NextContext]_vars

\* requests with one parameter that fails validation, next to valid ones
InvalidBoxes == {<<0, 0, NotNumber, 1>>, <<0, 0, 1>>, <<1, 1, 0, 0>>, <<0, 0, 1, 1>>}
InvalidLimits == {0, 1, MaxLimit + 1}
InvalidDatetimes == {<<"2", "/", "1">>, <<"1", "/", "2">>}
InvalidFilterBodies ==
    {Op("eq", <<Prop(p), Num(1)>>) : p \in {"id", "secret"}}
        \cup {Op("aequals", <<Prop("datetime"), Num(2)>>)}
InvalidOverrides(blank, filters) ==
    {[blank EXCEPT !.bbox = Some(b)] : b \in InvalidBoxes}
        \cup {[blank EXCEPT ![n] = Some("EPSG:3857")] : n \in {"crs", "bbox_crs", "filter_crs"}}
        \cup {[blank EXCEPT !.limit = Some(l)] : l \in InvalidLimits}
        \cup {[blank EXCEPT !.datetime = Some(d)] : d \in InvalidDatetimes}
        \cup {[blank EXCEPT !.filter = Some(f), !.filter_lang = Some("cql-json")] :
                 f \in filters}
InvalidGetInputs ==
    InvalidOverrides(GetBlank,
                     {TextFilter(b) : b \in InvalidFilterBodies} \cup {Malformed("text")})
InvalidItemInputs ==
    InvalidOverrides(ItemBlank,
                     {TextFilter(b) : b \in InvalidFilterBodies} \cup {Malformed("text")})
PostBlank ==
    [bbox |-> None, intersects |-> None, crs |-> None, bbox_crs |-> None,
     filter_crs |-> None, limit |-> None, datetime |-> None, filter |-> None,
     filter_lang |-> None]
InvalidPostInputs ==
    {Body(b) : b \in InvalidOverrides(PostBlank,
                                      {JsonFilter(f) : f \in InvalidFilterBodies})}
        \cup {Body([bbox |-> Some(<<0, 0, 1, 1>>),
                    intersects |-> Some([type |-> "Point", box |-> <<1, 1, 1, 1>>])])}

NextInvalid ==
    \/ \E q \in InvalidGetInputs : GetSearch(q)
    \/ \E q \in InvalidItemInputs : ItemCollection(q)
    \/ \E b \in InvalidPostInputs : PostSearch(b)

SpecInvalid == Init /\ [][NextInvalid]_vars

\* datetime parameter
TemporalGetInputs ==
    {[GetBlank EXCEPT !.datetime = d, !.ids = i] :
        d \in OptOf(Datetimes), i \in OptOf({<<2, 1, 3>>})}
TemporalItemInputs ==
    {[ItemBlank EXCEPT !.datetime = d, !.ids = i] :
        d \in OptOf(Datetimes), i \in OptOf({<<2, 1, 3>>})}
TemporalPostInputs ==
    {Body([datetime |-> d, ids |-> i]) :
        d \in OptOf(Datetimes), i \in OptOf({<<2, 1, 3>>})}

NextTemporal ==
    \/ \E q \in TemporalGetInputs : GetSearch(q)
    \/ \E q \in TemporalItemInputs : ItemCollection(q)
    \/ \E b \in TemporalPostInputs : PostSearch(b)

SpecTemporal == Init /\ [][NextTemporal]_vars

\* sortby, ids and the predicates an id list competes with
SortFields == {F_id, F_datetime}
\* GET sortby tokens: signed, unsigned, and a bare sign
SortTokens ==
    {<<"+">> \o f : f \in SortFields} \cup {<<"-">> \o f : f \in SortFields}
        \cup SortFields \cup {<<"+">>}
SortItems == [field : SortFields, direction : {"asc", "desc"}]
SortableIds == {<<2, 1, 3>>, <<3, 1>>}

QueryGetInputs ==
    {[GetBlank EXCEPT !.sortby = IF Len(sb) = 0 THEN None ELSE Some(sb),
                      !.ids = i, !.bbox = b, !.datetime = d] :
        sb \in SeqsUpTo(SortTokens, MaxSortKeys), i \in OptOf(SortableIds),
        b \in OptOf({<<1, 1, 1, 1>>}), d \in OptOf({<<"1">>})}
QueryItemInputs ==
    {[ItemBlank EXCEPT !.ids = i, !.bbox = b, !.datetime = d] :
        i \in OptOf(SortableIds), b \in OptOf({<<1, 1, 1, 1>>}), d \in OptOf({<<"1">>})}
QueryPostInputs ==
    {Body([sortby |-> IF Len(sb) = 0 THEN None ELSE Some(sb), ids |-> i,
           bbox |-> IF sp = "bbox" THEN Some(<<1, 1, 1, 1>>) ELSE None,
           intersects |-> IF sp = "intersects"
                          THEN Some([type |-> "Point", box |-> <<1, 1, 1, 1>>])
                          ELSE None,
           datetime |-> d]) :
        sb \in SeqsUpTo(SortItems, MaxSortKeys), i \in OptOf(SortableIds),
        sp \in {"none", "bbox", "intersects"}, d \in OptOf({<<"1">>})}

NextQuery ==
    \/ \E q \in QueryGetInputs : GetSearch(q)
    \/ \E q \in QueryItemInputs : ItemCollection(q)
    \/ \E b \in QueryPostInputs : PostSearch(b)

SpecQuery == Init /\ [][NextQuery]_vars

\* limit and pt: pages of the default ordering (datetime descending, id)
PageLimits == {1, 2}
PageTokens ==
    {to_token([place |-> <<d, i>>, backwards |-> b]) :
        d \in 1..MaxTs, i \in 1..Cardinality(Items), b \in BOOLEAN}
        \cup {<<"<">>, <<">">>}

PageGetInputs ==
    {[GetBlank EXCEPT !.limit = l, !.pt = t, !.bbox = b] :
        l \in OptOf(PageLimits), t \in OptOf(PageTokens), b \in OptOf({<<0, 0, 1, 1>>})}
PageItemInputs ==
    {[ItemBlank EXCEPT !.limit = l, !.pt = t, !.bbox = b] :
        l \in OptOf(PageLimits), t \in OptOf(PageTokens), b \in OptOf({<<0, 0, 1, 1>>})}
PagePostInputs ==
    {Body([limit |-> l, pt |-> t, bbox |-> b]) :
        l \in OptOf(PageLimits), t \in OptOf(PageTokens), b \in OptOf({<<0, 0, 1, 1>>})}

NextPage ==
    \/ \E q \in PageGetInputs : GetSearch(q)
    \/ \E q \in PageItemInputs : ItemCollection(q)
    \/ \E b \in PagePostInputs : PostSearch(b)

SpecPage == Init /\ [][NextPage]_vars

\* a client that pages through a result: first requests without pt
CrawlSorts == {<<"+">> \o F_datetime, <<"-">> \o F_id}
CrawlGetInputs ==
    {[GetBlank EXCEPT !.limit = l, !.sortby = sb, !.ids = i, !.collections = c] :
        l \in OptOf(PageLimits), sb \in OptOf({<<t>> : t \in CrawlSorts}),
        i \in OptOf({<<2, 1, 3>>}), c \in OptOf({<<"skraafotos2017">>})}
CrawlItemInputs ==
    {[ItemBlank EXCEPT !.limit = l, !.ids = i, !.bbox = b] :
        l \in OptOf(PageLimits), i \in OptOf({<<2, 1, 3>>}),
        b \in OptOf({<<0, 0, 1, 1>>})}
CrawlPostInputs ==
    {Body([limit |-> l, sortby |-> sb, ids |-> i, collections |-> c]) :
        l \in OptOf(PageLimits), sb \in OptOf({<<k>> : k \in SortItems}),
        i \in OptOf({<<2, 1, 3>>}), c \in OptOf({<<"skraafotos2017">>})}

NextCrawl ==
    \/ \E q \in CrawlGetInputs : GetSearch(q)
    \/ \E q \in CrawlItemInputs : ItemCollection(q)
    \/ \E b \in CrawlPostInputs : PostSearch(b)
    \/ FollowNext

SpecCrawl == Init /\ [][NextCrawl]_vars

\* ----------------------------------------------------------------- C1
\* the declaration order with bbox and intersects exchanged
IntersectsFirst ==
    [i \in 1..Len(FieldOrder) |->
        IF FieldOrder[i] = "bbox" THEN "intersects"
        ELSE IF FieldOrder[i] = "intersects" THEN "bbox"
        ELSE FieldOrder[i]]

BothSpatial ==
    /\ pc = "done"
    /\ TruthySeq(Param("bbox"))
    /\ IsSome(Param("intersects"))

\* C1: a request that supplies both a non-empty bbox and a non-empty
\* intersects geometry is rejected with a validation error (status 400, no
\* query issued), whatever its other parameters, and it is rejected as well
\* when the intersects validator runs before the bbox validator.
C1_BboxIntersectsExclusive ==
    BothSpatial =>
        /\ ~search.ok
        /\ response.status = 400
        /\ ~query.issued
        /\ ~ValidateModel(request, IntersectsFirst, RequestModelNotNullable).ok

\* both supplied, the bbox itself well ordered: the only error is the
\* mutual exclusion raised by the intersects validator
C1_Witness ==
    /\ BothSpatial
    /\ request.bbox = Some(<<0, 0, 1, 1>>)
    /\ "ids" \in DOMAIN request
    /\ Len(search.errs) = 1
    /\ search.errs[1].loc = "intersects"
    /\ response.status = 400

\* ----------------------------------------------------------------- C2
BBoxMisordered(b) ==
    IF Len(b) = 4 THEN b[3] < b[1] \/ b[4] < b[2]
    ELSE b[4] < b[1] \/ b[5] < b[2] \/ b[6] < b[3]

\* C2: a 4-element bbox with xmax < xmin or ymax < ymin is rejected, a
\* 6-element bbox additionally when zmax < zmin; a bbox violating none of
\* these (in a request without intersects) is accepted unchanged.
C2_BboxOrder ==
    (pc = "done" /\ TruthySeq(Param("bbox"))) =>
        LET b == Val(request.bbox) IN
        /\ BBoxMisordered(b) => (~search.ok /\ response.status = 400 /\ ~query.issued)
        /\ (~BBoxMisordered(b) /\ ~IsSome(Param("intersects"))) =>
               (search.ok /\ search.values.bbox = request.bbox)

\* a 6-element bbox rejected for its elevation alone
C2_Witness ==
    /\ pc = "done"
    /\ Param("bbox") = Some(<<0, 0, 1, 1, 1, 0>>)
    /\ ~search.ok
    /\ response.status = 400

\* ----------------------------------------------------------------- C3
\* C3: through every entry point, normalisation produces a request only
\* with an integer limit in (0, 1000]; an absent limit becomes 10; a limit
\* of 0, a negative limit and a limit above 1000 are rejected.
C3_LimitRange ==
    pc = "done" =>
        /\ search.ok =>
              /\ IsSome(search.values.limit)
              /\ Val(search.values.limit) \in 1..MaxLimit
        /\ "limit" \notin DOMAIN request \/ (entry # "post_search" /\ ~IsSome(request.limit)) =>
              (search.ok /\ search.values.limit = Some(DefaultLimit))
        /\ (IsSome(Param("limit")) /\ (Val(request.limit) <= 0 \/ Val(request.limit) > MaxLimit)) =>
              (~search.ok /\ response.status = 400 /\ ~query.issued)
        /\ response.status = 200 => search.ok

\* limit 0 is rejected at every entry point; an absent limit becomes 10
C3_Witness ==
    /\ pc = "done"
    /\ entry = "item_collection"
    /\ request.limit = Some(0)
    /\ ~search.ok
    /\ response.status = 400

\* ----------------------------------------------------------------- C4
\* the request carries a non-empty value outside the catalog for `name`
InvalidCrs(name) == TruthyStr(Param(name)) /\ ~is_crs_supported(Val(Param(name)))

\* C4: a request in which any one of crs, bbox_crs, filter_crs is a
\* non-empty value outside the supported CRS catalog is rejected, whatever
\* the other two are, and the error message contains the list of supported
\* CRS identifiers.
C4_CrsRejectedWithList ==
    (pc = "done" /\ \E n \in {"crs", "bbox_crs", "filter_crs"} : InvalidCrs(n)) =>
        /\ response.status = 400
        /\ ~query.issued
        /\ \E i \in 1..Len(response.detail) : response.detail[i].supported = SupportedCrs

\* ----------------------------------------------------------------- C5
IsTs(x) == x \in TsStrings
Ts(x) == parse_datetime(<<x>>)

\* the five forms of a datetime text
DtForm(s) ==
    IF Len(s) = 1 /\ IsTs(s[1]) THEN "instant"
    ELSE IF Len(s) = 3 /\ s[2] = "/"
    THEN IF IsTs(s[1]) /\ IsTs(s[3]) THEN "closed"
         ELSE IF IsTs(s[1]) /\ s[3] = ".." THEN "from"
         ELSE IF s[1] = ".." /\ IsTs(s[3]) THEN "until"
         ELSE IF s[1] = ".." /\ s[3] = ".." THEN "open"
         ELSE "other"
    ELSE "other"

\* the instant t satisfies the datetime text s
DtAdmits(s, t) ==
    CASE DtForm(s) = "instant" -> t = Ts(s[1])
      [] DtForm(s) = "closed" -> Ts(s[1]) <= t /\ t <= Ts(s[3])
      [] DtForm(s) = "from" -> t >= Ts(s[1])
      [] DtForm(s) = "until" -> t <= Ts(s[3])
      [] OTHER -> TRUE

\* the items of the collection the entry point searches
Searchable == {it \in Items : entry = "item_collection" => it.collection = request.id}

TemporalSearch ==
    /\ pc = "done"
    /\ search.ok
    /\ ~TruthySeq(search.values.ids)
    /\ TruthySeq(Param("datetime"))
    /\ DtForm(Val(request.datetime)) # "other"

\* C5: without an id list, a validated datetime selects exactly the items
\* with t = A for a single timestamp A, A <= t <= B for "A/B", t >= A for
\* "A/..", t <= B for "../B", and every item for "../..".
C5_TemporalPredicate ==
    TemporalSearch =>
        /\ query.issued
        /\ response.status = 200
        /\ Range(response.features) =
               {it.id : it \in {x \in Searchable : DtAdmits(Val(request.datetime), x.datetime)}}
        /\ Cardinality({i \in 1..Len(query.where) :
                           query.where[i].kind \in {"dt_eq", "dt_between", "dt_ge", "dt_le"}})
               = IF DtForm(Val(request.datetime)) = "open" THEN 0 ELSE 1

\* "2/.." on GET /search returns the items dated 2 and not the one dated 1
C5_Witness ==
    /\ TemporalSearch
    /\ entry = "get_search"
    /\ request.datetime = Some(<<"2", "/", "..">>)
    /\ Range(response.features) = {1, 3}

\* ----------------------------------------------------------------- C6
ClosedInterval ==
    /\ pc = "done"
    /\ TruthySeq(Param("datetime"))
    /\ DtForm(Val(request.datetime)) = "closed"

\* C6: a datetime "A/B" with two closed timestamps is accepted if and only
\* if A <= B; with A > B the request is rejected with a validation error.
C6_ClosedIntervalOrder ==
    ClosedInterval =>
        LET s == Val(request.datetime) IN
        /\ search.ok <=> Ts(s[1]) <= Ts(s[3])
        /\ Ts(s[1]) > Ts(s[3]) =>
               /\ response.status = 400
               /\ ~query.issued
               /\ \E i \in 1..Len(search.errs) : search.errs[i].loc = "datetime"

\* "2/1" is rejected
C6_Witness ==
    /\ ClosedInterval
    /\ request.datetime = Some(<<"2", "/", "1">>)
    /\ ~search.ok
    /\ response.status = 400

\* ----------------------------------------------------------------- C7
\* the sort key a GET sortby token denotes
TokenSort(t) ==
    IF Head(t) = "+" THEN [field |-> Tail(t), direction |-> "asc"]
    ELSE IF Head(t) = "-" THEN [field |-> Tail(t), direction |-> "desc"]
    ELSE [field |-> t, direction |-> "asc"]

\* C7: for every sortby token of a GET search, a leading "+" selects
\* ascending and a leading "-" descending on the field named by the rest of
\* the token, and a token without a sign selects ascending on the field
\* named by the whole token.
C7_GetSortTokens ==
    (pc = "done" /\ entry = "get_search" /\ TruthySeq(Param("sortby")) /\ search.ok) =>
        search.values.sortby =
            Some([i \in 1..Len(Val(request.sortby)) |-> TokenSort(Val(request.sortby)[i])])

\* ----------------------------------------------------------------- C8
\* the request is normalised, names only sortable fields, has no id list
KnownSort(sr) ==
    TruthySeq(sr.sortby) => \A i \in 1..Len(Val(sr.sortby)) : HasField(Val(sr.sortby)[i].field)

ColumnOf(f) == IF f = F_id THEN "id" ELSE "datetime"

UserKeys(sr) ==
    [i \in 1..Len(Val(sr.sortby)) |->
        [col |-> ColumnOf(Val(sr.sortby)[i].field), dir |-> Val(sr.sortby)[i].direction]]

StrictlyOrdered(features, keys) ==
    \A i \in 1..(Len(features) - 1) :
        SortsBefore(ItemById(features[i]), ItemById(features[i + 1]), keys, 1)

PlainSearch ==
    /\ pc = "done"
    /\ search.ok
    /\ KnownSort(search.values)
    /\ ~TruthySeq(search.values.ids)

\* C8: without an id list the query is ordered by the user's sort keys in
\* the order given followed by id, or by datetime descending then id
\* ascending when no sortby is given; id is the last key and the returned
\* items are strictly ordered under the keys (the order is total).
C8_SortOrder ==
    PlainSearch =>
        /\ response.status = 200
        /\ query.order_by =
               IF TruthySeq(search.values.sortby)
               THEN UserKeys(search.values) \o <<[col |-> "id", dir |-> "asc"]>>
               ELSE <<[col |-> "datetime", dir |-> "desc"], [col |-> "id", dir |-> "asc"]>>
        /\ query.order_by[Len(query.order_by)] = [col |-> "id", dir |-> "asc"]
        /\ StrictlyOrdered(response.features, query.order_by)

\* sortby datetime ascending: the item dated 1, then the two dated 2 by id,
\* from a table stored in another order
C8_Witness ==
    /\ PlainSearch
    /\ entry = "post_search"
    /\ DOMAIN request = {"sortby"}
    /\ Len(Val(request.sortby)) = 1
    /\ Val(request.sortby)[1] = [field |-> F_datetime, direction |-> "asc"]
    /\ storage[1].id = 3
    /\ response.features = <<2, 1, 3>>

\* ----------------------------------------------------------------- C9
IdSearch ==
    /\ pc = "done"
    /\ search.ok
    /\ KnownSort(search.values)
    /\ TruthySeq(search.values.ids)

\* C9: with a non-empty id list the query carries neither a spatial nor a
\* temporal predicate: the items returned are exactly the searched items
\* whose id is listed, whatever bbox, intersects and datetime are supplied.
C9_IdsIgnoreSpaceTime ==
    IdSearch =>
        /\ response.status = 200
        /\ \A i \in 1..Len(query.where) : query.where[i].kind \in {"collection", "ids"}
        /\ Range(response.features) =
               {it.id : it \in {x \in Searchable : x.id \in Range(Val(request.ids))}}

\* all three items come back although only item 2 lies in the bbox and
\* only item 2 carries the datetime
C9_Witness ==
    /\ IdSearch
    /\ entry = "get_search"
    /\ request.ids = Some(<<2, 1, 3>>)
    /\ request.bbox = Some(<<1, 1, 1, 1>>)
    /\ request.datetime = Some(<<"1">>)
    /\ Range(response.features) = {1, 2, 3}

\* ---------------------------------------------------------------- C10
\* C10: with a non-empty id list the ordering of the query is ascending id
\* alone: the items are returned in ascending id order, whatever the
\* storage order, the items' datetime values and the sortby of the request.
C10_IdsAscending ==
    IdSearch =>
        /\ query.order_by = <<[col |-> "id", dir |-> "asc"]>>
        /\ \A i \in 1..(Len(response.features) - 1) :
               response.features[i] < response.features[i + 1]

\* ---------------------------------------------------------------- C11
\* the page the issued query yields for the request's limit and token
PageOf ==
    get_page(Execute(query, storage), query.order_by,
             Val(search.values.limit), PageToken(search.values))

LinksOf(rel) == {i \in 1..Len(response.links) : response.links[i].rel = rel}

Answered == pc = "done" /\ response.status = 200

\* C11: a response has a next link, carrying a non-empty token, exactly when
\* the executed page reports has_next, and a previous link exactly when it
\* reports has_previous; the first page of a result larger than limit has a
\* next link and no previous link, and a first page that holds the whole
\* result has neither.
C11_LinksFollowFlags ==
    Answered =>
        /\ Cardinality(LinksOf("next")) = IF PageOf.has_next THEN 1 ELSE 0
        /\ Cardinality(LinksOf("previous")) = IF PageOf.has_previous THEN 1 ELSE 0
        /\ \A i \in 1..Len(response.links) :
              /\ response.links[i].rel \in {"next", "previous"}
              /\ IsSome(response.links[i].body.pt)
              /\ Len(Val(response.links[i].body.pt)) >= 1
        /\ ~IsSome(Param("pt")) =>
              /\ LinksOf("previous") = {}
              /\ LinksOf("next") # {}
                    <=> Len(Execute(query, storage)) > Val(search.values.limit)

\* limit 2 of 3 matching items, no pt: two features, a next link only
C11_Witness ==
    /\ Answered
    /\ entry = "post_search"
    /\ request = Body([limit |-> Some(2), pt |-> None, bbox |-> None])
    /\ Len(response.features) = 2
    /\ Len(response.links) = 1
    /\ response.links[1].rel = "next"

\* ---------------------------------------------------------------- C12
\* the parameters of the originating request, as the link has to carry them
Originating ==
    [k \in {n \in DOMAIN request \ {"id", "pt"} : IsSome(request[n])} |-> request[k]]

\* the token minted for a link of the page
Minted(rel) ==
    to_token(Val(IF rel = "next" THEN PageOf.bookmark_next ELSE PageOf.bookmark_previous))

NamedCollections ==
    IF entry = "item_collection" THEN <<request.id>>
    ELSE IF TruthySeq(Param("collections")) THEN Val(Param("collections")) ELSE <<>>

\* every property name written anywhere in a cql-json value
RECURSIVE JsonProps(_)
JsonProps(n) ==
    CASE n.j = "prop" -> {n.name}
      [] n.j = "op" -> UNION {JsonProps(n.args[i]) : i \in 1..Len(n.args)}
      [] OTHER -> {}

\* the request carries a filter that is non-empty and parses to an expression
FilterGiven ==
    /\ pc = "done"
    /\ TruthyFilter(Param("filter"))
    /\ CanParse(Val(Param("filter")))
    /\ Val(Param("filter")).body.j = "op"

\* the attributes of the request's filter outside the allowed set
Disallowed ==
    JsonProps(Val(Param("filter")).body)
        \ ValidFieldsOf(get_queryable_properties_intersection(NamedCollections))

\* C13: a filter that references, anywhere in its tree, an attribute outside
\* the base queryables plus the shared queryables of the named collections
\* fails normalization with an error naming that field, and no storage query
\* is issued.
C13_UnknownFieldRejected ==
    (FilterGiven /\ Disallowed # {}) =>
        /\ ~search.ok
        /\ \E f \in Disallowed : \E i \in 1..Len(search.errs) :
                search.errs[i].msg = "Cannot search on field: " \o f
        /\ ~query.issued


\* ---------------------------------------------------------------- C14
\* every operator key written anywhere in a cql-json value
RECURSIVE JsonKeys(_)
JsonKeys(n) ==
    CASE n.j = "op" -> {n.key} \cup UNION {JsonKeys(n.args[i]) : i \in 1..Len(n.args)}
      [] OTHER -> {}

\* C14: a filter that uses the temporal operator `meets` fails validation
\* with an unsupported-operator error.
C14_MeetsUnsupported ==
    (FilterGiven /\ "meets" \in JsonKeys(Val(Param("filter")).body)) =>
        /\ ~search.ok
        /\ \E i \in 1..Len(search.errs) : search.errs[i].msg = "Unsupported operation"
        /\ ~query.issued


\* ---------------------------------------------------------------- C15
\* the request carries a filter parameter without a usable expression: an
\* empty value, a value that does not parse, or one whose parse is empty
FilterUnusable ==
    /\ pc = "done"
    /\ IsSome(Param("filter"))
    /\ \/ Val(Param("filter")).empty
       \/ ~CanParse(Val(Param("filter")))
       \/ ~AstTruthy(parse_json(Val(Param("filter"))))

\* C15: a request whose filter parameter is empty, does not parse or parses
\* to an empty result is rejected with a filter syntax error and is never
\* processed as if no filter had been supplied.
C15_EmptyFilterRejected ==
    FilterUnusable =>
        /\ ~search.ok
        /\ \E i \in 1..Len(search.errs) :
                search.errs[i].msg = "The input cql-json could not be parsed"
        /\ ~query.issued


\* ---------------------------------------------------------------- C16
\* the lists that name every registered collection id
AllKnownLists == {ids \in CollectionLists : Range(ids) = CollectionIds}

\* C16: get_queryable_properties_intersection called with an empty list
\* returns the same base fields and the same shared fields as when called
\* with the list of all known collection ids.
C16_EmptyMeansAll ==
    (pc = "done" /\ entry = "queryables" /\ request.collections = <<>>) =>
        \A all \in AllKnownLists :
            /\ response.base = get_queryable_properties_intersection(all).base
            /\ response.shared = get_queryable_properties_intersection(all).shared

C16_Witness ==
    /\ pc = "done" /\ entry = "queryables"
    /\ request.collections = <<>>
    /\ response.base = base_queryables
    /\ response.shared = {"direction", "gsd"}
    /\ AllKnownLists # {}

\* ---------------------------------------------------------------- C17
\* the queryables registered for a collection id (none for an unknown id)
Registered(c) == IF c \in CollectionIds THEN CollectionQueryables(c) ELSE {}

\* C17: for every list of collection ids, every returned shared field is
\* queryable in all of the named collections, so an id without registered
\* queryables forces the shared set to be empty.
C17_SharedInAllNamed ==
    (pc = "done" /\ entry = "queryables") =>
        \A q \in response.shared :
            \A i \in 1..Len(request.collections) :
                q \in Registered(request.collections[i])


\* ---------------------------------------------------------------- C18
\* a POST search answered with the fields extension active on its fields
FieldsSearch ==
    /\ pc = "done" /\ entry = "post_search"
    /\ "FieldsExtension" \in extensions
    /\ "fields" \in DOMAIN request
    /\ response.status = 200

\* C18: with the fields extension active, an excluded field is absent from
\* every returned item, also when the filter references it, unless it is in
\* the always-included default set, in which case it is retained.
C18_ExcludedUnlessDefault ==
    FieldsSearch =>
        \A e \in Val(request.fields).exclude :
            IF e \in default_includes
            THEN e \in response.fields
            ELSE e \notin response.fields

\* ---------------------------------------------------------------- C19
\* the item paths of the fields the request's filter references
FilterPaths ==
    IF IsSome(Param("filter")) THEN QueryInclude(JsonProps(Val(Param("filter")).body))
    ELSE {}

\* C19: with the fields extension active and a filter present, every field
\* the filter references is part of the include set of the projection,
\* whether the user's include set is empty or not, so it is output unless
\* the user excluded it.
C19_FilterFieldsOutput ==
    FieldsSearch =>
        \A path \in (FilterPaths \cap ItemPaths) \ Val(request.fields).exclude :
            path \in response.fields


\* ---------------------------------------------------------------- C20
\* the stored items the issued query matches, on whatever page they fall
MatchedItems == {i \in 1..Len(storage) : Matches(query.where, storage[i])}

\* C20: with the context extension enabled the context block's matched value
\* is the number of stored items the request matches across all pages, for
\* every request including id-list requests; with it disabled the response
\* has no context block.
C20_MatchedCount ==
    Answered =>
        IF "ContextExtension" \in extensions
        THEN /\ IsSome(response.context)
             /\ Val(response.context).matched = Cardinality(MatchedItems)
        ELSE response.context = None


\* ---------------------------------------------------------------- C21
\* the request carries a parameter that fails validation
MalformedBbox ==
    /\ TruthySeq(Param("bbox"))
    /\ \/ Len(Val(Param("bbox"))) \notin {4, 6}
       \/ \E i \in 1..Len(Val(Param("bbox"))) : ~IsNumber(Val(Param("bbox"))[i])
InvalidParameters ==
    \/ MalformedBbox
    \/ TruthySeq(Param("bbox")) /\ ~MalformedBbox /\ BBoxMisordered(Val(Param("bbox")))
    \/ TruthySeq(Param("bbox")) /\ IsSome(Param("intersects"))
    \/ \E n \in {"crs", "bbox_crs", "filter_crs"} : InvalidCrs(n)
    \/ TruthyFilter(Param("filter")) /\ ~CanParse(Val(Param("filter")))
    \/ FilterGiven /\ Disallowed # {}
    \/ FilterGiven /\ JsonKeys(Val(Param("filter")).body) \cap ARRAY_PREDICATES_MAP # {}
    \/ TruthySeq(Param("datetime")) /\ DtForm(Val(Param("datetime"))) = "closed"
         /\ Ts(Val(Param("datetime"))[1]) > Ts(Val(Param("datetime"))[3])
    \/ IsSome(Param("limit")) /\ (Val(Param("limit")) <= 0 \/ Val(Param("limit")) > MaxLimit)

\* C21: in every search entry point a validation failure of the request
\* parameters is surfaced as a status-400 error, never as another status or
\* an unhandled exception.
C21_ValidationFailure400 ==
    (pc = "done" /\ InvalidParameters) => response.status = 400


\* ---------------------------------------------------------------- C22
\* the geometry literals of a parsed filter
RECURSIVE AstGeometries(_)
AstGeometries(e) ==
    CASE e.kind = "geom" -> {e.geom}
      [] e.kind = "not" -> AstGeometries(e.sub_node)
      [] e.kind = "bin" -> AstGeometries(e.lhs) \cup AstGeometries(e.rhs)
      [] e.kind = "between" ->
            AstGeometries(e.lhs) \cup AstGeometries(e.low) \cup AstGeometries(e.high)
      [] OTHER -> {}

\* the SRID the request's filter-crs resolves to
FilterSrid ==
    IF TruthyStr(Param("filter_crs")) THEN epsg_from_crs(Val(Param("filter_crs")))
    ELSE StorageSrid

\* a request accepted with a parsed filter
FilterAccepted ==
    /\ pc = "done"
    /\ search.ok
    /\ IsSome(search.values.filter)
    /\ Val(search.values.filter).form = "ast"

\* C22: when filter-crs resolves to a CRS other than the storage CRS, every
\* geometry literal of the filter is tagged with that CRS before parsing,
\* for a POST body and for the JSON text of a GET alike; when it is the
\* storage CRS no literal is tagged.
C22_GeometryLiteralsTagged ==
    FilterAccepted =>
        \A g \in AstGeometries(Val(search.values.filter).ast) :
            g.crs = IF FilterSrid # StorageSrid THEN Some(FilterSrid) ELSE None


\* ---------------------------------------------------------------- C23
\* the request carries a well-formed 3-D bbox
Bbox3D ==
    /\ pc = "done"
    /\ TruthySeq(Param("bbox"))
    /\ Len(Val(Param("bbox"))) = 6
    /\ \A i \in 1..6 : IsNumber(Val(Param("bbox"))[i])

\* C23: a 6-element bbox is accepted only if its maximum elevation strictly
\* exceeds its minimum elevation; equal elevations are rejected with a
\* validation error.
C23_ElevationStrict ==
    (Bbox3D /\ search.ok) => Val(Param("bbox"))[6] > Val(Param("bbox"))[3]


\* ---------------------------------------------------------------- C24
\* C24: a failure of the storage collaborator during get_queryables' check
\* that the collection exists is surfaced as a server error, not as the
\* client error "Collection doesn't exist" (status 400).
C24_StorageFailureIsServerError ==
    (pc = "done" /\ entry = "get_queryables" /\ query.outcome = "StorageError") =>
        response.status = 500


\* ---------------------------------------------------------------- C25
RECURSIVE Concat(_)
Concat(seqs) == IF Len(seqs) = 0 THEN <<>> ELSE Head(seqs) \o Concat(Tail(seqs))

\* a run of pages that has reached a response without a next link
CrawlEnded ==
    /\ pc = "done"
    /\ entry \in {"get_search", "item_collection", "post_search"}
    /\ response.status = 200
    /\ Len(NextLinks) = 0

\* the ids of all items the request matches, in the order of its sort
WholeResult ==
    LET rows == Execute(query, storage) IN [i \in 1..Len(rows) |-> rows[i].id]

\* C25: following the next links from a request without pt until a response
\* has none, the pages together hold every item the request matches exactly
\* once, in the request's sort order, each page with at most limit items.
C25_PagesCoverResult ==
    CrawlEnded =>
        /\ Concat(pages) = WholeResult
        /\ \A i \in 1..Len(pages) : Len(pages[i]) <= Val(search.values.limit)

C25_Witness ==
    /\ CrawlEnded
    /\ Len(pages) = 3
    /\ Len(WholeResult) = 3
    /\ \A i \in 1..3 : Len(pages[i]) = 1


\* ---------------------------------------------------------------- C26
\* the two mappings name a common member
Overlap(inc, exc) ==
    \E p \in DOMAIN inc \cap DOMAIN exc :
        \/ inc[p].whole /\ exc[p].whole
        \/ inc[p].keys \cap exc[p].keys # {}

\* C26: the include and exclude sets FieldsExtension.filter_fields produces
\* are disjoint for every user include set, user exclude set and default
\* set, also when a default field is listed for exclusion.
C26_IncludeExcludeDisjoint ==
    FieldsSearch =>
        ~Overlap(Val(response.filter_kwargs).include, Val(response.filter_kwargs).exclude)


\* ---------------------------------------------------------------- C27
\* C27: after any sequence of request-processing operations the registry's
\* base-queryable list, its per-collection queryable sets and the configured
\* default-include set hold exactly the values they had at startup.
C27_SharedStateUnchanged == shared = Startup

\* a filtered search with a field selection has been served
C27_Witness ==
    /\ FieldsSearch
    /\ "filter" \in DOMAIN request
    /\ IsSome(response.filter_kwargs)
    /\ ValidFieldsReached(search)


\* ---------------------------------------------------------------- C28
\* a GET search or collection-items request with a valid filter was served
LangRequest ==
    /\ pc = "done" /\ entry \in {"get_search", "item_collection"}
    /\ request.filter \in {Some(TextFilter(b)) : b \in LangFilterBodies}

\* C28: a GET search or collection-items request with a valid cql-json filter
\* and no filter-lang parameter is normalized with filter language cql-json
\* and accepted; omitting filter-lang never by itself rejects the request.
C28_OmittedFilterLangAccepted ==
    (LangRequest /\ request.filter_lang = None) =>
        /\ response.status = 200
        /\ search.ok
        /\ search.values.filter_lang = Some("cql-json")


\* ---------------------------------------------------------------- C29
\* a search without an id list whose interval-valued datetime was accepted
\* and whose query was built
IntervalSearch ==
    /\ pc = "done" /\ entry \in {"get_search", "item_collection", "post_search"}
    /\ search.ok
    /\ ~TruthySeq(search.values.ids)
    /\ TruthySeq(search.values.datetime)
    /\ "/" \in Range(Val(search.values.datetime))
    /\ query.issued

\* the bounds as validate_datetime reads them, and the temporal predicates
DtBounds == Split(Val(search.values.datetime))
DtOpen(i) == IsDotDot(DtBounds[i]) \/ IsEmptyText(DtBounds[i])
DtClauses ==
    SelectSeq(query.where, LAMBDA c : c.kind \in {"dt_eq", "dt_between", "dt_ge", "dt_le"})
BoundedBelow == \E i \in 1..Len(DtClauses) : DtClauses[i].kind \in {"dt_eq", "dt_between", "dt_ge"}
BoundedAbove == \E i \in 1..Len(DtClauses) : DtClauses[i].kind \in {"dt_eq", "dt_between", "dt_le"}

\* C29: every accepted datetime with a bound the validator treats as open
\* (".." or the empty text) yields a predicate that leaves that side
\* unbounded, and every accepted value yields a well-formed predicate with at
\* most two bounds.
C29_OpenBoundsAgree ==
    IntervalSearch =>
        /\ DtOpen(1) => ~BoundedBelow
        /\ DtOpen(2) => ~BoundedAbove
        /\ Len(DtClauses) <= 1
        /\ \A i \in 1..Len(DtClauses) :
               /\ Len(DtClauses[i].args) <= 2
               /\ \A j \in 1..Len(DtClauses[i].args) : CanParseDatetime(DtClauses[i].args[j])


\* ---------------------------------------------------------------- C30
\* an item request was served
ItemRequest == pc = "done" /\ entry = "get_item"
InCollection ==
    \E item \in Items : item.id = request.item_id /\ item.collection = request.collection_id

\* C30: get_item returns an item only if an item with that id exists in the
\* collection named by collection_id; an id that exists only in another
\* collection is answered with 404, as is an id that exists nowhere.
C30_ItemOfNamedCollection ==
    ItemRequest =>
        /\ response.status = 200 => InCollection
        /\ (~InCollection /\ response.status # 400) => response.status = 404

====
